---------------------------- MODULE Spec2Model ----------------------------
(***************************************************************************)
(* The dataset query layer of the EES dashboard (src/api.py, src/utils.py, *)
(* src/app.py): the result cache, the metadata memo, pagination, record    *)
(* normalisation, client-side filtering and the chronological sort.        *)
(*                                                                         *)
(* Python strings on which the code computes (substring tests, splits,     *)
(* prefixes, sorting, number parsing) are sequences of one-character       *)
(* strings; dataset ids, on which the code only tests equality, are        *)
(* natural numbers.                                                        *)
(***************************************************************************)
EXTENDS Integers, Sequences, FiniteSets, TLC

VARIABLES
    query_cache,   \* api.query_cache: the OrderedDict, oldest insertion first
    meta_cache,    \* the lru_cache of get_metadata, least recently used first
    heap,          \* the DataFrame objects alive, by reference
    pc,            \* per thread: where its query_dataset call stands
    args,          \* per thread: the arguments of its call
    loc,           \* per thread: the locals of its call
    result,        \* per thread: what its last call gave the caller
    log,           \* per thread: the remote requests and responses of its call
    graph,         \* per thread: the figure and the message update_graph
                   \* has put out since its last call
    hist           \* history (insertion clock, last eviction, last hit and
                   \* return) and the pandas build the process runs on

vars == <<query_cache, meta_cache, heap, pc, args, loc, result, log, graph, hist>>

-----------------------------------------------------------------------------
(* Bounds of the model.                                                    *)

\* The largest totalPages a page response reports.
MaxPages == 2
\* The number of distinct criteria the FIFO workload queries beyond capacity.
MaxExtra == 2

\* len(query_cache) >= 50
CacheCapacity == 50
\* @lru_cache(maxsize=10)
MetaCapacity == 10

\* The caller threads (Dash callbacks) the state is kept for; Main is the
\* one that runs when calls are made one at a time.
Threads == {"t1", "t2"}
Main == "t1"

None == [t |-> "None", n |-> 0, s |-> <<>>]

-----------------------------------------------------------------------------
(* Strings.                                                                *)

\* The characters the model's strings use, in code-point order.
Alphabet ==
    <<" ", "+", "-", "/", "0", "1", "2", "3", "4", "5", "6", "7", "8", "9",
      ":", "A", "D", "E", "F", "G", "I", "M", "N", "R", "T", "U", "X", "_",
      "a", "d", "e", "f", "g", "h", "i", "k", "l", "n", "o", "p", "r", "s", "t",
      "u", "w", "x">>

Ord(c) == CHOOSE i \in 1..Len(Alphabet) : Alphabet[i] = c

\* Python's < on str: lexicographic by code point, a proper prefix first.
RECURSIVE StrLess(_, _)
StrLess(a, b) ==
    IF b = <<>> THEN FALSE
    ELSE IF a = <<>> THEN TRUE
    ELSE IF Head(a) = Head(b) THEN StrLess(Tail(a), Tail(b))
    ELSE Ord(Head(a)) < Ord(Head(b))

\* sub in s, and the first place it starts at (0 when it does not occur).
IndexOf(s, sub) ==
    LET starts == {i \in 1..(Len(s) - Len(sub) + 1) :
                      SubSeq(s, i, i + Len(sub) - 1) = sub}
    IN  IF starts = {} THEN 0
        ELSE CHOOSE i \in starts : \A j \in starts : i <= j

Contains(s, sub) == IndexOf(s, sub) > 0

StartsWith(s, prefix) ==
    Len(prefix) <= Len(s) /\ SubSeq(s, 1, Len(prefix)) = prefix

\* s.split(sep)[0]
BeforeFirst(s, sep) ==
    IF Contains(s, sep) THEN SubSeq(s, 1, IndexOf(s, sep) - 1) ELSE s

\* s.split(sep, 1)[1], for an s that contains sep
AfterFirst(s, sep) ==
    SubSeq(s, IndexOf(s, sep) + Len(sep), Len(s))

Sep == <<" ", ":", ":", " ">>
Slash == <<"/">>
FilterPrefix == <<"f", "i", "l", "t", "e", "r", "_">>

\* sorted(list of str): insertion of each element after the elements not
\* greater than it (Python's sort is stable).
RECURSIVE InsertSorted(_, _)
InsertSorted(x, s) ==
    IF s = <<>> THEN <<x>>
    ELSE IF StrLess(x, Head(s)) THEN <<x>> \o s
    ELSE <<Head(s)>> \o InsertSorted(x, Tail(s))

RECURSIVE SortedStrs(_)
SortedStrs(s) ==
    IF s = <<>> THEN <<>>
    ELSE InsertSorted(s[Len(s)], SortedStrs(SubSeq(s, 1, Len(s) - 1)))

-----------------------------------------------------------------------------
(* Number parsing.                                                         *)

Digits == {"0", "1", "2", "3", "4", "5", "6", "7", "8", "9"}

DigitVal(c) == Ord(c) - Ord("0")

RECURSIVE Strip(_)
Strip(s) ==
    IF s = <<>> THEN s
    ELSE IF Head(s) = " " THEN Strip(Tail(s))
    ELSE IF s[Len(s)] = " " THEN Strip(SubSeq(s, 1, Len(s) - 1))
    ELSE s

RECURSIVE DigitsValue(_, _)
DigitsValue(s, acc) ==
    IF s = <<>> THEN acc
    ELSE IF Head(s) = "_" THEN DigitsValue(Tail(s), acc)
    ELSE DigitsValue(Tail(s), 10 * acc + DigitVal(Head(s)))

\* digit (["_"] digit)*: the digit part of a Python integer literal
IsDigitString(s) ==
    /\ s # <<>>
    /\ \A i \in 1..Len(s) : s[i] \in Digits \cup {"_"}
    /\ s[1] \in Digits /\ s[Len(s)] \in Digits
    /\ \A i \in 1..(Len(s) - 1) : ~(s[i] = "_" /\ s[i + 1] = "_")

\* The digits of a digit string without its "_" and its leading zeros.
RECURSIVE Significant(_)
Significant(s) ==
    IF s = <<>> THEN s
    ELSE IF Head(s) \in {"0", "_"} THEN Significant(Tail(s))
    ELSE LET IsDigit(c) == c # "_" IN SelectSeq(s, IsDigit)

\* 2^31: a C int holds the integers from -2^31 to 2^31 - 1.
CIntLimit == <<"2", "1", "4", "7", "4", "8", "3", "6", "4", "8">>

\* Whether the number a digit string writes, negated when neg, is outside
\* a C int.
ExceedsCInt(s, neg) ==
    \/ Len(Significant(s)) > Len(CIntLimit)
    \/ /\ Len(Significant(s)) = Len(CIntLimit)
       /\ IF neg THEN StrLess(CIntLimit, Significant(s))
          ELSE ~StrLess(Significant(s), CIntLimit)

\* int(s) for a str s: [ok |-> FALSE] stands for ValueError.  Python's int
\* has no width; big tells that the value is outside a C int, and n is
\* then left at 0.
IntParse(s) ==
    LET t == Strip(s)
        signed == t # <<>> /\ Head(t) \in {"+", "-"}
        body == IF signed THEN Tail(t) ELSE t
    IN  IF ~IsDigitString(body) THEN [ok |-> FALSE, n |-> 0, big |-> FALSE]
        ELSE IF ExceedsCInt(body, signed /\ Head(t) = "-")
        THEN [ok |-> TRUE, n |-> 0, big |-> TRUE]
        ELSE [ok |-> TRUE, big |-> FALSE,
              n |-> IF signed /\ Head(t) = "-" THEN 0 - DigitsValue(body, 0)
                    ELSE DigitsValue(body, 0)]

Lower(c) ==
    IF c = "A" THEN "a" ELSE IF c = "F" THEN "f" ELSE IF c = "I" THEN "i"
    ELSE IF c = "N" THEN "n" ELSE c

NumCell(n) == [t |-> "num", n |-> n, s |-> <<>>]
StrCell(s) == [t |-> "str", n |-> 0, s |-> s]
NanCell == [t |-> "nan", n |-> 0, s |-> <<>>]
InfCell(sign) == [t |-> "inf", n |-> sign, s |-> <<>>]

\* float(s) for a str s over the model's alphabet (no ".", no exponent):
\* an integer literal, or nan / inf with an optional sign, in any case.
FloatParse(s) ==
    LET t == Strip(s)
        signed == t # <<>> /\ Head(t) \in {"+", "-"}
        neg == signed /\ Head(t) = "-"
        body == IF signed THEN Tail(t) ELSE t
        low == [i \in 1..Len(body) |-> Lower(body[i])]
    IN  IF IsDigitString(body)
        THEN [ok |-> TRUE,
              v |-> NumCell(IF neg THEN 0 - DigitsValue(body, 0)
                            ELSE DigitsValue(body, 0))]
        ELSE IF low = <<"n", "a", "n">> THEN [ok |-> TRUE, v |-> NanCell]
        ELSE IF low = <<"i", "n", "f">>
        THEN [ok |-> TRUE, v |-> InfCell(IF neg THEN 0 - 1 ELSE 1)]
        ELSE [ok |-> FALSE, v |-> NanCell]

-----------------------------------------------------------------------------
(* The cache key.                                                          *)

\* A filters dict is a sequence of entries [name, op, values] in insertion
\* order, with distinct names; None and {} are both <<>>.  A criteria dict
\* holds one operator, as app.update_graph builds it; the value of "eq" is
\* the one element of values.

RECURSIVE InsertItem(_, _)
InsertItem(x, s) ==
    IF s = <<>> THEN <<x>>
    ELSE IF StrLess(x.name, Head(s).name) THEN <<x>> \o s
    ELSE <<Head(s)>> \o InsertItem(x, Tail(s))

RECURSIVE SortedItems(_)
SortedItems(s) ==
    IF s = <<>> THEN <<>>
    ELSE InsertItem(s[Len(s)], SortedItems(SubSeq(s, 1, Len(s) - 1)))

\* A dict becomes the sorted tuple of its items; a list becomes the tuple of
\* its items in the order given.
make_hashable(filters) == SortedItems(filters)

\* The key without sorted(): the lists as the caller ordered them.
cache_key_unsorted(a) ==
    [dataset_id |-> a.dataset_id,
     indicator_id |-> a.indicator_id,
     geo_level_codes |-> a.geo_level_codes,
     period_list |-> a.period_list,
     filters |-> IF a.filters # <<>> THEN make_hashable(a.filters) ELSE <<>>]

cache_key(a) ==
    [dataset_id |-> a.dataset_id,
     indicator_id |-> a.indicator_id,
     geo_level_codes |-> SortedStrs(a.geo_level_codes),
     period_list |-> SortedStrs(a.period_list),
     filters |-> IF a.filters # <<>> THEN make_hashable(a.filters) ELSE <<>>]

-----------------------------------------------------------------------------
(* Raw records and normalised rows.                                        *)

\* A raw record of a page is
\*   [timePeriod, geographicLevel : a sequence holding the value when the
\*        record has one,
\*    locations : the names, in the mapping's order,
\*    values : a sequence of [key, val], in the mapping's order,
\*    filters : a sequence of [name, val], in the mapping's order]
\* and a raw value is one of the three below.
NullVal == [t |-> "null", n |-> 0, s |-> <<>>]
NumVal(n) == [t |-> "num", n |-> n, s |-> <<>>]
StrVal(s) == [t |-> "str", n |-> 0, s |-> s]

Unknown == <<"U", "n", "k", "n", "o", "w", "n">>

\* The time_period cell: the label as fetched, then a Timestamp or NaT.
LabelCell(s) == [t |-> "label", year |-> 0, s |-> s]
TsCell(year) == [t |-> "ts", year |-> year, s |-> <<>>]
NaT == [t |-> "NaT", year |-> 0, s |-> <<>>]
\* In the place of a cell: the conversion left with OverflowError.
Overflow == [t |-> "OverflowError", year |-> 0, s |-> <<>>]

\* str(val) whatever val is: None becomes the text "None".
ParseValueStr(val) ==
    IF val.t = "null" THEN StrCell(<<"N", "o", "n", "e">>)
    ELSE IF val.t = "num" THEN NumCell(val.n)
    ELSE IF FloatParse(val.s).ok THEN FloatParse(val.s).v
    ELSE StrCell(val.s)

\* float(val), and on ValueError or TypeError str(val) unless val is None.
ParseValue(val) ==
    IF val.t = "null" THEN None
    ELSE IF val.t = "num" THEN NumCell(val.n)
    ELSE IF FloatParse(val.s).ok THEN FloatParse(val.s).v
    ELSE StrCell(val.s)

\* indicator_value starting as NaN instead of None: a record without the
\* indicator gets a row.
IndicatorValueDefault(values, indicator_id) ==
    LET hits == {i \in 1..Len(values) : Contains(values[i].key, indicator_id)}
    IN  IF hits = {} THEN NanCell
        ELSE ParseValue(values[CHOOSE i \in hits : \A j \in hits : i <= j].val)

\* The loop breaking only once a value is there: a null under the first
\* matching key sends it on to the next one.
IndicatorValueNonNull(values, indicator_id) ==
    LET hits == {i \in 1..Len(values) :
                    /\ Contains(values[i].key, indicator_id)
                    /\ values[i].val.t # "null"}
    IN  IF hits = {} THEN None
        ELSE ParseValue(values[CHOOSE i \in hits : \A j \in hits : i <= j].val)

\* The loop over values.items(): the first key that contains indicator_id
\* decides, and the loop breaks there.
RECURSIVE IndicatorValue(_, _)
IndicatorValue(values, indicator_id) ==
    IF values = <<>> THEN None
    ELSE IF Contains(Head(values).key, indicator_id)
    THEN ParseValue(Head(values).val)
    ELSE IndicatorValue(Tail(values), indicator_id)

\* The records list built from all_results; a row's index is its place in
\* that list, the RangeIndex pd.DataFrame(records) gives it.  src is
\* history: the place in all_results of the record the row was made from,
\* seen is the count of records gone through.
RECURSIVE RecordsFrom(_, _, _, _)
RecordsFrom(all_results, indicator_id, done, seen) ==
    IF all_results = <<>> THEN done
    ELSE LET res == Head(all_results)
             v == IndicatorValue(res.values, indicator_id)
             row == [index |-> Len(done),
                     src |-> seen + 1,
                     time_period |->
                         LabelCell(IF res.timePeriod = <<>> THEN Unknown
                                   ELSE res.timePeriod[1]),
                     geographic_level |->
                         IF res.geographicLevel = <<>> THEN Unknown
                         ELSE res.geographicLevel[1],
                     location_name |->
                         IF res.locations = <<>> THEN Unknown
                         ELSE res.locations[1],
                     value |-> v,
                     filters |-> res.filters,
                     label |-> NanCell]
         IN  RecordsFrom(Tail(all_results), indicator_id,
                         IF v.t # "None" THEN Append(done, row) ELSE done,
                         seen + 1)

Records(all_results, indicator_id, done) ==
    RecordsFrom(all_results, indicator_id, done, 0)

\* The filter columns of pd.DataFrame(records): the union of the records'
\* filter keys, in the order of first appearance.
RECURSIVE FilterColumns(_, _)
FilterColumns(rows, cols) ==
    IF rows = <<>> THEN cols
    ELSE LET names == [i \in 1..Len(Head(rows).filters) |->
                          Head(rows).filters[i].name]
             IsNew(n) == \A j \in 1..Len(cols) : cols[j] # n
         IN  FilterColumns(Tail(rows), cols \o SelectSeq(names, IsNew))

\* A table (DataFrame) is
\*   [base : whether it has the columns time_period, geographic_level,
\*           location_name and indicator_id (pd.DataFrame([]) has none),
\*    columns : the dimensions of its filter_* columns, in column order,
\*    extra : whether it has the column filter_value_label,
\*    rows : its rows, in order].
\* Indicator ids are taken not to be column names themselves.
DataFrame(records) ==
    [base |-> records # <<>>,
     columns |-> FilterColumns(records, <<>>),
     extra |-> FALSE,
     rows |-> records]

Empty(df) == df.rows = <<>>

\* df[col] of one row: NaN where the record had no such filter.
FilterCell(row, col) ==
    LET hits == {i \in 1..Len(row.filters) : row.filters[i].name = col}
    IN  IF hits = {} THEN NanCell
        ELSE StrCell(row.filters[CHOOSE i \in hits : TRUE].val)

-----------------------------------------------------------------------------
(* Client-side filtering.                                                  *)

\* utils.extract_filter_id
extract_filter_id(value) ==
    IF value.t = "nan" THEN value
    ELSE IF Contains(value.s, Sep) THEN StrCell(BeforeFirst(value.s, Sep))
    ELSE value

\* utils.extract_label
extract_label(value) ==
    IF value.t = "nan" THEN value
    ELSE IF Contains(value.s, Sep) THEN StrCell(AfterFirst(value.s, Sep))
    ELSE value

\* The first column, in column order, whose name starts with
\* "filter_" + name: <<>> when there is none, else <<its dimension>>.
MatchingCol(columns, name) ==
    LET hits == {i \in 1..Len(columns) :
                    StartsWith(FilterPrefix \o columns[i], FilterPrefix \o name)}
    IN  IF hits = {} THEN <<>>
        ELSE <<columns[CHOOSE i \in hits : \A j \in hits : i <= j]>>

\* One turn of the loop over filters.items().
FilterStep(df, f) ==
    LET col == MatchingCol(df.columns, f.name)
        Id(row) == extract_filter_id(FilterCell(row, col[1]))
        Keep(row) ==
            IF f.op = "in"
            THEN Id(row).t = "str"
                 /\ \E i \in 1..Len(f.values) : f.values[i] = Id(row).s
            ELSE Id(row).t = "str" /\ Id(row).s = f.values[1]
    IN  IF col = <<>> THEN df
        ELSE [df EXCEPT !.rows = SelectSeq(df.rows, Keep)]

RECURSIVE FilterLoop(_, _)
FilterLoop(df, filters) ==
    IF filters = <<>> THEN df
    ELSE FilterLoop(FilterStep(df, Head(filters)), Tail(filters))

ApplyFilters(df, filters) ==
    IF filters # <<>> /\ ~Empty(df) THEN FilterLoop(df, filters) ELSE df

-----------------------------------------------------------------------------
(* The time axis.                                                          *)

\* The years pd.Timestamp(year=..., month=9, day=1) holds at nanosecond
\* resolution, and the years datetime holds at all.
NsYears == 1678..2261
DatetimeYears == 1..9999

\* utils.period_to_datetime.  ns_only tells whether the pandas build raises
\* OutOfBoundsDatetime (a ValueError) outside NsYears or keeps the value at
\* a coarser resolution.  pd.Timestamp(year=...) hands the year to datetime,
\* which takes it as a C int: a year outside a C int is OverflowError, which
\* the except clause does not name.
period_to_datetime(period_str, ns_only) ==
    LET year_str == IF Contains(period_str, Slash)
                    THEN BeforeFirst(period_str, Slash)
                    ELSE period_str
        p == IntParse(year_str)
    IN  IF ~p.ok THEN NaT
        ELSE IF p.big THEN Overflow
        ELSE IF p.n \in NsYears THEN TsCell(p.n)
        ELSE IF p.n \in DatetimeYears /\ ~ns_only THEN TsCell(p.n)
        ELSE NaT

\* Ascending, NaT last (na_position = "last").
TimeLeq(a, b) ==
    \/ b.t = "NaT"
    \/ a.t = "ts" /\ b.t = "ts" /\ a.year <= b.year

\* df.sort_values("time_period"): the default kind is quicksort, which
\* promises no order among rows of equal time, so every ascending
\* arrangement of the rows with a time is an outcome; the rows without one
\* are put after them as they stand.
SortValues(rows) ==
    LET n == Len(rows)
        Perms == {f \in [1..n -> 1..n] : \A i, j \in 1..n : i # j => f[i] # f[j]}
        Arranged(f) == [i \in 1..n |-> rows[f[i]]]
    IN  {Arranged(f) : f \in
            {g \in Perms :
                /\ \A i \in 1..(n - 1) :
                      TimeLeq(rows[g[i]].time_period, rows[g[i + 1]].time_period)
                /\ \A i, j \in 1..n :
                      (i < j /\ rows[g[i]].time_period = NaT
                          /\ rows[g[j]].time_period = NaT)
                      => g[i] < g[j]}}

\* Lines 243-249: the tables the conversion and the sort can give.  An
\* exception of the conversion leaves apply() before the column is assigned
\* and is passed over: the table stays as it was, labels and order.
ToChronological(df, ns_only) ==
    IF ~Empty(df) /\ df.base
    THEN LET conv == [i \in 1..Len(df.rows) |->
                         [df.rows[i] EXCEPT !.time_period =
                             period_to_datetime(df.rows[i].time_period.s, ns_only)]]
         IN  IF \E i \in 1..Len(conv) : conv[i].time_period = Overflow
             THEN {df}
             ELSE {[df EXCEPT !.rows = r] : r \in SortValues(conv)}
    ELSE {df}

\* Lines 185-249: from the accumulated raw records to the tables the call
\* can end with.
BuildTables(all_results, indicator_id, filters, ns_only) ==
    ToChronological(
        ApplyFilters(DataFrame(Records(all_results, indicator_id, <<>>)), filters),
        ns_only)

-----------------------------------------------------------------------------
(* What the caller does to the table it was given.                         *)

\* pd.to_numeric(errors="coerce") on one cell
ToNumeric(cell) ==
    IF cell.t = "str" THEN NanCell ELSE cell

\* utils.prepare_chart_data, lines 105-117: what it does in place to the
\* table it was passed, before it groups into a new one.
PrepareInPlace(df, selected_dim) ==
    LET coerced == [i \in 1..Len(df.rows) |->
                       [df.rows[i] EXCEPT !.value = ToNumeric(@)]]
        target_col == MatchingCol(df.columns, selected_dim)
        labelled == [i \in 1..Len(coerced) |->
                        [coerced[i] EXCEPT !.label =
                            extract_label(FilterCell(coerced[i], target_col[1]))]]
    IN  IF target_col = <<>> THEN [df EXCEPT !.rows = coerced]
        ELSE [df EXCEPT !.rows = labelled, !.extra = TRUE]

\* Line 120, groupby(["time_period", "filter_value_label"]): a row without
\* a time or without a label is in no group (dropna), and the groups come
\* in ascending order of their keys (sort).
HasKey(row) == row.time_period.t # "NaT" /\ row.label.t = "str"

GroupKey(row) == [time_period |-> row.time_period, label |-> row.label.s]

TimeLess(a, b) ==
    IF a.t = "ts" /\ b.t = "ts" THEN a.year < b.year ELSE StrLess(a.s, b.s)

KeyLess(a, b) ==
    \/ TimeLess(a.time_period, b.time_period)
    \/ a.time_period = b.time_period /\ StrLess(a.label, b.label)

RECURSIVE SortKeys(_)
SortKeys(S) ==
    IF S = {} THEN <<>>
    ELSE LET first == CHOOSE x \in S : \A y \in S \ {x} : KeyLess(x, y)
         IN  <<first>> \o SortKeys(S \ {first})

RECURSIVE SumOf(_)
SumOf(cells) == IF cells = <<>> THEN 0 ELSE Head(cells).n + SumOf(Tail(cells))

\* The mean of a group, which passes over NaN: the sum and the count of
\* its numbers, an infinity when it has infinities of one sign, and NaN
\* when it has no number or infinities of both signs.
Mean(cells) ==
    LET IsNum(c) == c.t = "num"
        nums == SelectSeq(cells, IsNum)
        Has(sign) == \E i \in 1..Len(cells) : cells[i] = InfCell(sign)
    IN  IF Has(1) /\ Has(0 - 1) THEN [t |-> "nan", sum |-> 0, count |-> 0]
        ELSE IF Has(1) THEN [t |-> "inf", sum |-> 1, count |-> 0]
        ELSE IF Has(0 - 1) THEN [t |-> "inf", sum |-> 0 - 1, count |-> 0]
        ELSE IF nums = <<>> THEN [t |-> "nan", sum |-> 0, count |-> 0]
        ELSE [t |-> "num", sum |-> SumOf(nums), count |-> Len(nums)]

\* Lines 120-122: the grouped table, one row per group.
Groups(rows) ==
    LET keyed == SelectSeq(rows, HasKey)
        keys == SortKeys({GroupKey(keyed[i]) : i \in 1..Len(keyed)})
        ValuesOf(k) == LET Member(row) == GroupKey(row) = k
                           members == SelectSeq(keyed, Member)
                       IN  [i \in 1..Len(members) |-> members[i].value]
    IN  [i \in 1..Len(keys) |->
            [time_period |-> keys[i].time_period, label |-> keys[i].label,
             mean |-> Mean(ValuesOf(keys[i]))]]

RECURSIVE SortedYears(_)
SortedYears(S) ==
    IF S = {} THEN <<>>
    ELSE LET first == CHOOSE x \in S : \A y \in S : x <= y
         IN  <<first>> \o SortedYears(S \ {first})

\* What prepare_chart_data ends with: the table it was passed as it has
\* left it, the exception it raised if it raised one, and else the groups
\* it returns and the years its warning names (none: an empty warning).
Outcome(df, raised, msg, df_numeric, years) ==
    [df |-> df, raised |-> raised, msg |-> msg, df_numeric |-> df_numeric,
     years |-> years]

\* utils.prepare_chart_data.  A table without the indicator column,
\* pd.DataFrame([]), is KeyError at line 106; the warning reads the years
\* with .dt, which is AttributeError on a time_period column that holds
\* text.
prepare_chart_data(df, selected_dim) ==
    LET after == PrepareInPlace(df, selected_dim)
        grouped == Groups(after.rows)
        NotNa(g) == g.mean.t # "nan"
        IsNa(g) == g.mean.t = "nan"
        df_numeric == SelectSeq(grouped, NotNa)
        df_non_numeric == SelectSeq(grouped, IsNa)
        textual == \E i \in 1..Len(df_non_numeric) :
                      df_non_numeric[i].time_period.t # "ts"
        excluded_years == {df_non_numeric[i].time_period.year :
                              i \in 1..Len(df_non_numeric)}
    IN  IF ~df.base
        THEN Outcome(df, "KeyError", "indicator_id", <<>>, <<>>)
        ELSE IF MatchingCol(df.columns, selected_dim) = <<>>
        THEN Outcome(after, "ValueError",
                     "Selected filter dimension not found in returned data.",
                     <<>>, <<>>)
        ELSE IF df_numeric = <<>>
        THEN Outcome(after, "ValueError",
                     "No numerical data available for plotting. All values are non-numeric.",
                     <<>>, <<>>)
        ELSE IF textual
        THEN Outcome(after, "AttributeError",
                     "Can only use .dt accessor with datetimelike values",
                     <<>>, <<>>)
        ELSE Outcome(after, "", "", df_numeric, SortedYears(excluded_years))

\* What update_graph puts out for a dataset: a figure, which is px.scatter()
\* or the line chart of the groups, and a message, which is empty, "Error: "
\* and the text of an exception (for an exception of query_dataset: of its
\* type), or the note of the periods left out, by their years.
NoGraph == [figure |-> "none", data |-> <<>>, kind |-> "", text |-> "", years |-> <<>>]

ErrorGraph(text) ==
    [figure |-> "scatter", data |-> <<>>, kind |-> "Error", text |-> text,
     years |-> <<>>]

LineGraph(df_numeric, years) ==
    [figure |-> "line", data |-> df_numeric,
     kind |-> IF years = <<>> THEN "" ELSE "Note",
     text |-> IF years = <<>> THEN ""
              ELSE "could not be plotted as values are non-numerical.",
     years |-> years]

-----------------------------------------------------------------------------
(* The caches and the heap.                                                *)

\* query_cache is a sequence of entries [key, ref, stamp, args]: ref is the
\* cached DataFrame object; stamp, the count of insertions when it was
\* inserted, and args, the arguments of the call that inserted it, are
\* history.
Keys(cache) == {cache[i].key : i \in 1..Len(cache)}

EntryOf(cache, key) ==
    cache[CHOOSE i \in 1..Len(cache) : cache[i].key = key]

\* A reference no live object has.
NewRef(h) == CHOOSE r \in 1..(Cardinality(DOMAIN h) + 1) : r \notin DOMAIN h

\* The objects something still refers to: the cache's tables, the tables
\* the callers hold, the tables the running calls have built.
Live(cache, res, lc) ==
    {cache[i].ref : i \in 1..Len(cache)}
        \cup {res[t].ref : t \in Threads} \cup {lc[t].df : t \in Threads}

Collect(h, cache, res, lc) ==
    [r \in DOMAIN h \cap Live(cache, res, lc) |-> h[r]]

NoArgs ==
    [dataset_id |-> 0, indicator_id |-> <<>>, geo_level_codes |-> <<>>,
     period_list |-> <<>>, filters |-> <<>>]

NoPayload == [geographicLevels |-> <<>>, timePeriods |-> <<>>, indicators |-> <<>>]

\* The locals of a call: lines 122-128 and 157-159.
Locals(a) ==
    [key |-> cache_key(a), lookup |-> "none", payload |-> NoPayload,
     page |-> 1, total_pages |-> 1, all_results |-> <<>>, df |-> 0]

NoResult == [kind |-> "none", ref |-> 0, err |-> "", hit |-> FALSE]
Raised(err) == [kind |-> "error", ref |-> 0, err |-> err, hit |-> FALSE]
Returned(ref, hit) == [kind |-> "table", ref |-> ref, err |-> "", hit |-> hit]

\* The code taken from the last metadata entry of the period, not the first.
RECURSIVE time_period_criteria_last(_, _)
time_period_criteria_last(period_list, time_periods_meta) ==
    IF period_list = <<>> THEN <<>>
    ELSE LET p == Head(period_list)
             hits == {i \in 1..Len(time_periods_meta) :
                         time_periods_meta[i].period = p}
             matching == time_periods_meta[CHOOSE i \in hits :
                                               \A j \in hits : j <= i]
         IN  <<IF hits # {}
               THEN [code |-> matching.code, period |-> matching.period]
               ELSE [code |-> "AY", period |-> p]>>
             \o time_period_criteria_last(Tail(period_list), time_periods_meta)

\* Lines 136-154: the request body.
RECURSIVE time_period_criteria(_, _)
time_period_criteria(period_list, time_periods_meta) ==
    IF period_list = <<>> THEN <<>>
    ELSE LET p == Head(period_list)
             hits == {i \in 1..Len(time_periods_meta) :
                         time_periods_meta[i].period = p}
             matching == time_periods_meta[CHOOSE i \in hits :
                                               \A j \in hits : i <= j]
         IN  <<IF hits # {}
               THEN [code |-> matching.code, period |-> matching.period]
               ELSE [code |-> "AY", period |-> p]>>
             \o time_period_criteria(Tail(period_list), time_periods_meta)

Payload(a, meta) ==
    [geographicLevels |-> a.geo_level_codes,
     timePeriods |-> time_period_criteria(a.period_list, meta.timePeriods),
     indicators |-> <<a.indicator_id>>]

\* The loop test off by one: it goes on to the page after the last.
LoopCondLate(page, total_pages) == page <= total_pages + 1

\* Line 161
LoopCond(page, total_pages) == page <= total_pages

\* Only the first warning is looked at.
HasNoResultsFirst(warnings) ==
    warnings # <<>> /\ warnings[1] = "NoResults"

\* Lines 168-171: some warning carries the no-data code.
HasNoResults(warnings) ==
    \E i \in 1..Len(warnings) : warnings[i] = "NoResults"

\* The total is read under a key no response has, and is always the default.
TotalPagesDefault(paging) == 1

\* paging.get("totalPages", 1)
TotalPages(paging) == IF paging = <<>> THEN 1 ELSE paging[1]

-----------------------------------------------------------------------------
(* The log of a call's remote traffic.                                     *)

ReqMeta == [e |-> "req_meta", page |-> 0, ok |-> TRUE, warnings |-> <<>>,
            paging |-> <<>>, results |-> <<>>]
RespMeta(ok) == [e |-> "resp_meta", page |-> 0, ok |-> ok, warnings |-> <<>>,
                 paging |-> <<>>, results |-> <<>>]
ReqPage(page) == [e |-> "req_page", page |-> page, ok |-> TRUE, warnings |-> <<>>,
                  paging |-> <<>>, results |-> <<>>]
RespPage(page, resp) ==
    [e |-> "resp_page", page |-> page, ok |-> resp.ok, warnings |-> resp.warnings,
     paging |-> resp.paging, results |-> resp.results]

-----------------------------------------------------------------------------
(* query_dataset, step by step.  A step ends where the call waits for the  *)
(* remote service or touches a shared cache.                               *)

Init ==
    /\ query_cache = <<>>
    /\ meta_cache = <<>>
    /\ heap = <<>>
    /\ pc = [t \in Threads |-> "idle"]
    /\ args = [t \in Threads |-> NoArgs]
    /\ loc = [t \in Threads |-> Locals(NoArgs)]
    /\ result = [t \in Threads |-> NoResult]
    /\ log = [t \in Threads |-> <<>>]
    /\ graph = [t \in Threads |-> NoGraph]
    /\ hist = [clock |-> 0, evicted |-> <<>>, last_hit |-> <<>>,
               last_return |-> <<>>, dirty |-> FALSE, ns_only |-> TRUE,
               fetched |-> <<>>, used |-> <<>>]

\* The call leaves with an exception.
Raise(t, err) ==
    /\ pc' = [pc EXCEPT ![t] = "idle"]
    /\ result' = [result EXCEPT ![t] = Raised(err)]
    /\ loc' = [loc EXCEPT ![t].df = 0]
    /\ heap' = Collect(heap, query_cache, result', loc')

\* Lines 121-128: the caller, with no output yet, drops the table it held
\* and calls with a.
Call(t, a) ==
    /\ pc[t] = "idle"
    /\ pc' = [pc EXCEPT ![t] = "lookup"]
    /\ args' = [args EXCEPT ![t] = a]
    /\ loc' = [loc EXCEPT ![t] = Locals(a)]
    /\ result' = [result EXCEPT ![t] = NoResult]
    /\ log' = [log EXCEPT ![t] = <<>>]
    /\ graph' = [graph EXCEPT ![t] = NoGraph]
    /\ heap' = Collect(heap, query_cache, result', loc')
    /\ UNCHANGED <<query_cache, meta_cache, hist>>

\* The lookup whose result is not acted on: the call goes on to the service
\* also when the key is cached.
LookupIgnored(t) ==
    /\ pc[t] = "lookup"
    /\ pc' = [pc EXCEPT ![t] = "meta"]
    /\ loc' = [loc EXCEPT ![t].lookup =
                   IF loc[t].key \in Keys(query_cache) THEN "hit" ELSE "miss"]
    /\ UNCHANGED <<query_cache, meta_cache, heap, args, result, log, hist, graph>>

\* Line 129: if cache_key in query_cache
Lookup(t) ==
    /\ pc[t] = "lookup"
    /\ IF loc[t].key \in Keys(query_cache)
       THEN /\ pc' = [pc EXCEPT ![t] = "hit"]
            /\ loc' = [loc EXCEPT ![t].lookup = "hit"]
       ELSE /\ pc' = [pc EXCEPT ![t] = "meta"]
            /\ loc' = [loc EXCEPT ![t].lookup = "miss"]
    /\ UNCHANGED <<query_cache, meta_cache, heap, args, result, log, hist, graph>>

\* The record of a return: the arguments, the table as returned, whether
\* the last table returned before was for the same arguments, and whether
\* the caller had changed that table in place.
Snapshot(a, tbl) ==
    <<[args |-> a, table |-> tbl,
       repeat |-> hist.last_return # <<>> /\ hist.last_return[1].args = a,
       after_change |-> hist.dirty]>>

\* A read that makes the entry the newest, query_cache.move_to_end(key).
GetItemMoveToEnd(cache, key) ==
    LET Others(e) == e.key # key
    IN  Append(SelectSeq(cache, Others), EntryOf(cache, key))

\* Line 130, query_cache[cache_key]: reading an OrderedDict moves nothing.
GetItem(cache, key) == cache

\* Line 130: return query_cache[cache_key].copy()
ReturnHit(t) ==
    /\ pc[t] = "hit"
    /\ IF loc[t].key \in Keys(query_cache)
       THEN LET r == NewRef(heap)
                tbl == heap[EntryOf(query_cache, loc[t].key).ref]
            IN  /\ heap' = Collect((r :> tbl) @@ heap, query_cache,
                                   [result EXCEPT ![t] = Returned(r, TRUE)], loc)
                /\ result' = [result EXCEPT ![t] = Returned(r, TRUE)]
                /\ pc' = [pc EXCEPT ![t] = "idle"]
                /\ query_cache' = GetItem(query_cache, loc[t].key)
                /\ hist' = [hist EXCEPT
                               !.last_hit = <<loc[t].key>>,
                               !.last_return = Snapshot(args[t], tbl),
                               !.dirty = FALSE]
                /\ UNCHANGED loc
       ELSE /\ Raise(t, "KeyError")
            /\ UNCHANGED <<query_cache, hist>>
    /\ UNCHANGED <<meta_cache, args, log, graph>>

\* The memo of get_metadata is a sequence of entries [dataset_id, meta],
\* the least recently used first.  hist.fetched and hist.used are the
\* dataset ids in the order of their last fetch and of their last use.
Latest(ids, d) ==
    LET Other(x) == x # d IN Append(SelectSeq(ids, Other), d)

\* A hit that leaves the entry where it is.
LruHitInPlace(cache, d) == cache

\* A hit of lru_cache: the entry becomes the most recently used.
LruHit(cache, d) ==
    LET Others(e) == e.dataset_id # d
        Same(e) == e.dataset_id = d
    IN  SelectSeq(cache, Others) \o SelectSeq(cache, Same)

\* A miss that is kept whatever the size of the memo.
LruInsertUnbounded(cache, entry) == Append(cache, entry)

\* A miss of lru_cache(maxsize=10): the result is kept, in the place of the
\* least recently used entry when the memo is full.
LruInsert(cache, entry) ==
    Append(IF Len(cache) >= MetaCapacity THEN Tail(cache) ELSE cache, entry)

\* Line 133, get_metadata under lru_cache: a dataset id the memo holds is
\* served from it and becomes the most recently used; any other id is
\* requested from the service (line 52).
GetMetadata(t) ==
    /\ pc[t] = "meta"
    /\ LET d == args[t].dataset_id
           hits == {i \in 1..Len(meta_cache) : meta_cache[i].dataset_id = d}
           i == CHOOSE j \in hits : TRUE
       IN  IF hits # {}
           THEN /\ meta_cache' = LruHit(meta_cache, d)
                /\ hist' = [hist EXCEPT !.used = Latest(@, d)]
                /\ loc' = [loc EXCEPT ![t].payload = Payload(args[t], meta_cache[i].meta)]
                /\ pc' = [pc EXCEPT ![t] = "loop"]
                /\ UNCHANGED log
           ELSE /\ log' = [log EXCEPT ![t] = Append(@, ReqMeta)]
                /\ pc' = [pc EXCEPT ![t] = "await_meta"]
                /\ UNCHANGED <<meta_cache, loc, hist>>
    /\ UNCHANGED <<query_cache, heap, args, result, graph>>

\* Lines 30-32 and 35: the service answers the metadata request.  A failed
\* request raises and nothing is memoised; a descriptor is memoised, the
\* least recently used one leaving a full memo, unless the memo has got the
\* dataset id in the meantime.
RecvMetadata(t, resp) ==
    /\ pc[t] = "await_meta"
    /\ log' = [log EXCEPT ![t] = Append(@, RespMeta(resp.ok))]
    /\ IF ~resp.ok
       THEN /\ Raise(t, "HTTPError")
            /\ UNCHANGED <<meta_cache, hist>>
       ELSE LET d == args[t].dataset_id
                present == \E i \in 1..Len(meta_cache) : meta_cache[i].dataset_id = d
            IN  /\ IF present
                   THEN UNCHANGED <<meta_cache, hist>>
                   ELSE /\ meta_cache' =
                               LruInsert(meta_cache, [dataset_id |-> d, meta |-> resp.meta])
                        /\ hist' = [hist EXCEPT !.fetched = Latest(@, d),
                                                !.used = Latest(@, d)]
                /\ loc' = [loc EXCEPT ![t].payload = Payload(args[t], resp.meta)]
                /\ pc' = [pc EXCEPT ![t] = "loop"]
                /\ UNCHANGED <<heap, result>>
    /\ UNCHANGED <<query_cache, args, graph>>

\* Lines 161-165: the loop goes on and the next page is requested.
PostQuerySend(t) ==
    /\ pc[t] = "loop"
    /\ LoopCond(loc[t].page, loc[t].total_pages)
    /\ log' = [log EXCEPT ![t] = Append(@, ReqPage(loc[t].page))]
    /\ pc' = [pc EXCEPT ![t] = "await"]
    /\ UNCHANGED <<query_cache, meta_cache, heap, args, loc, result, hist, graph>>

\* A failed page request caught in the loop, which then ends with the pages
\* fetched so far.
PostQueryRecvPartial(t, resp) ==
    /\ pc[t] = "await"
    /\ log' = [log EXCEPT ![t] = Append(@, RespPage(loc[t].page, resp))]
    /\ IF ~resp.ok
       THEN /\ loc' = [loc EXCEPT ![t].total_pages = 0]
            /\ pc' = [pc EXCEPT ![t] = "loop"]
            /\ UNCHANGED <<heap, result>>
       ELSE IF HasNoResults(resp.warnings)
       THEN Raise(t, "ValueError")
       ELSE /\ loc' = [loc EXCEPT
                          ![t].total_pages = TotalPages(resp.paging),
                          ![t].all_results = @ \o resp.results,
                          ![t].page = @ + 1]
            /\ pc' = [pc EXCEPT ![t] = "loop"]
            /\ UNCHANGED <<heap, result>>
    /\ UNCHANGED <<query_cache, meta_cache, args, hist, graph>>

\* The total kept as the largest one any response of the call reported.
PostQueryRecvLargest(t, resp) ==
    /\ pc[t] = "await"
    /\ log' = [log EXCEPT ![t] = Append(@, RespPage(loc[t].page, resp))]
    /\ IF ~resp.ok
       THEN Raise(t, "HTTPError")
       ELSE IF HasNoResults(resp.warnings)
       THEN Raise(t, "ValueError")
       ELSE /\ loc' = [loc EXCEPT
                          ![t].total_pages =
                              IF loc[t].page > 1 /\ @ > TotalPages(resp.paging)
                              THEN @ ELSE TotalPages(resp.paging),
                          ![t].all_results = @ \o resp.results,
                          ![t].page = @ + 1]
            /\ pc' = [pc EXCEPT ![t] = "loop"]
            /\ UNCHANGED <<heap, result>>
    /\ UNCHANGED <<query_cache, meta_cache, args, hist, graph>>

\* Lines 75-77 and 167-183: the service answers the page request.
PostQueryRecv(t, resp) ==
    /\ pc[t] = "await"
    /\ log' = [log EXCEPT ![t] = Append(@, RespPage(loc[t].page, resp))]
    /\ IF ~resp.ok
       THEN Raise(t, "HTTPError")
       ELSE IF HasNoResults(resp.warnings)
       THEN Raise(t, "ValueError")
       ELSE /\ loc' = [loc EXCEPT
                          ![t].total_pages = TotalPages(resp.paging),
                          ![t].all_results = @ \o resp.results,
                          ![t].page = @ + 1]
            /\ pc' = [pc EXCEPT ![t] = "loop"]
            /\ UNCHANGED <<heap, result>>
    /\ UNCHANGED <<query_cache, meta_cache, args, hist, graph>>

\* Lines 161 and 185-249: the loop ends and the table is built.
BuildTable(t) ==
    /\ pc[t] = "loop"
    /\ ~LoopCond(loc[t].page, loc[t].total_pages)
    /\ \E df \in BuildTables(loc[t].all_results, args[t].indicator_id,
                             args[t].filters, hist.ns_only) :
          LET r == NewRef(heap)
          IN  /\ heap' = (r :> df) @@ heap
              /\ loc' = [loc EXCEPT ![t].df = r]
    /\ pc' = [pc EXCEPT ![t] = "store"]
    /\ UNCHANGED <<query_cache, meta_cache, args, result, log, hist, graph>>

\* A full cache losing its newest entry, popitem(last=True).
EvictNewest(cache) ==
    IF Len(cache) >= CacheCapacity THEN SubSeq(cache, 1, Len(cache) - 1) ELSE cache

\* The eviction test off by one: len(query_cache) > 50.
EvictLate(cache) ==
    IF Len(cache) > CacheCapacity THEN Tail(cache) ELSE cache

\* Lines 252-253: a full cache loses its oldest entry,
\* query_cache.popitem(last=False).
Evict(cache) ==
    IF Len(cache) >= CacheCapacity THEN Tail(cache) ELSE cache

\* A new key put before the others instead of after them.
SetItemFirst(cache, entry) == <<entry>> \o cache

\* Line 254, query_cache[cache_key] = ...: a key the OrderedDict holds keeps
\* its place, a new key goes last.
SetItem(cache, entry) ==
    IF entry.key \in Keys(cache)
    THEN [i \in 1..Len(cache) |->
             IF cache[i].key = entry.key
             THEN [cache[i] EXCEPT !.ref = entry.ref] ELSE cache[i]]
    ELSE Append(cache, entry)

\* Storing the table itself: query_cache[cache_key] = df.
StoredRefShared(h, df) == df

\* Line 254, df.copy(): the reference of the object the cache is given, a
\* new one.
StoredRef(h, df) == NewRef(h)

\* Lines 251-256: the table is stored, as a copy, and returned.
Store(t) ==
    /\ pc[t] = "store"
    /\ LET c == StoredRef(heap, loc[t].df)
           tbl == heap[loc[t].df]
           entry == [key |-> loc[t].key, ref |-> c, stamp |-> hist.clock + 1,
                     args |-> args[t]]
           gone == IF Evict(query_cache) # query_cache
                   THEN <<[key |-> Head(query_cache).key,
                           stamp |-> Head(query_cache).stamp]>>
                   ELSE hist.evicted
       IN  /\ query_cache' = SetItem(Evict(query_cache), entry)
           /\ result' = [result EXCEPT ![t] = Returned(loc[t].df, FALSE)]
           /\ loc' = [loc EXCEPT ![t].df = 0]
           /\ heap' = Collect((c :> tbl) @@ heap, query_cache', result', loc')
           /\ hist' = [hist EXCEPT
                          !.clock = @ + 1,
                          !.evicted = gone,
                          !.last_return = Snapshot(args[t], tbl),
                          !.dirty = FALSE]
    /\ pc' = [pc EXCEPT ![t] = "idle"]
    /\ UNCHANGED <<meta_cache, args, log, graph>>

\* The test that is never met.
NoDataFoundNever(df) == FALSE

\* app.py line 173: if df.empty
NoDataFound(df) == Empty(df)

\* app.update_graph, lines 169-199, once query_dataset has returned or
\* raised: an exception of the call, an empty table and an exception of
\* prepare_chart_data give an empty figure and the message of the
\* exception; otherwise the groups are plotted and the message is the
\* warning.  prepare_chart_data changes the table it is passed in place.
UpdateGraph(t, selected_dim) ==
    /\ pc[t] = "idle"
    /\ result[t].kind # "none"
    /\ graph[t] = NoGraph
    /\ IF result[t].kind = "error"
       THEN /\ graph' = [graph EXCEPT ![t] = ErrorGraph(result[t].err)]
            /\ UNCHANGED <<heap, hist>>
       ELSE IF NoDataFound(heap[result[t].ref])
       THEN /\ graph' = [graph EXCEPT ![t] =
                             ErrorGraph("No data found for this combination.")]
            /\ UNCHANGED <<heap, hist>>
       ELSE LET out == prepare_chart_data(heap[result[t].ref], selected_dim)
            IN  /\ heap' = [heap EXCEPT ![result[t].ref] = out.df]
                /\ hist' = [hist EXCEPT !.dirty = @ \/ heap' # heap]
                /\ graph' = [graph EXCEPT ![t] =
                                 IF out.raised # ""
                                 THEN ErrorGraph(out.msg)
                                 ELSE LineGraph(out.df_numeric, out.years)]
    /\ UNCHANGED <<query_cache, meta_cache, pc, args, loc, result, log>>

-----------------------------------------------------------------------------
(* The service and the callers of the model.                               *)

IND1 == <<"I", "N", "D", "1">>
NAT == <<"N", "A", "T">>
REG == <<"R", "E", "G">>
P2023 == <<"2", "0", "2", "3", "/", "2", "0", "2", "4">>
P2024 == <<"2", "0", "2", "4", "/", "2", "0", "2", "5">>
DimG == <<"g">>
Male == <<"M">> \o Sep \o <<"M", "a", "l", "e">>
Female == <<"F">> \o Sep \o <<"F", "e", "m", "a", "l", "e">>
England == <<"E", "n", "g", "l", "a", "n", "d">>

RawRecord(period, val, g) ==
    [timePeriod |-> <<period>>, geographicLevel |-> <<NAT>>,
     locations |-> <<England>>,
     values |-> <<[key |-> IND1 \o Sep \o <<"I">>, val |-> val]>>,
     filters |-> <<[name |-> DimG, val |-> g]>>]

\* The records the service holds on each page of a query's result.
PageData(page) ==
    IF page = 1 THEN <<RawRecord(P2024, StrVal(<<"1", "0", "0">>), Male)>>
    ELSE IF page = 2 THEN <<RawRecord(P2023, StrVal(<<"x">>), Female)>>
    ELSE <<RawRecord(P2024, NumVal(200), Male)>>

Meta == [timePeriods |-> <<[code |-> "AY", period |-> P2024]>>]

MetaResponses == {[ok |-> FALSE, meta |-> Meta], [ok |-> TRUE, meta |-> Meta]}

WarningLists ==
    {<<>>, <<"Other">>, <<"NoResults">>, <<"Other", "NoResults">>}

Pagings == {<<>>} \cup {<<n>> : n \in 0..MaxPages}

Failure == [ok |-> FALSE, warnings |-> <<>>, paging |-> <<>>, results |-> <<>>]

\* What the service can answer to the request for a page.
PageResponses(page) ==
    {Failure} \cup
    {[ok |-> TRUE, warnings |-> w, paging |-> pg, results |-> PageData(page)] :
        w \in WarningLists, pg \in Pagings}

Query(dataset_id, geo, periods, filters) ==
    [dataset_id |-> dataset_id, indicator_id |-> IND1, geo_level_codes |-> geo,
     period_list |-> periods, filters |-> filters]

In(name, values) == [name |-> name, op |-> "in", values |-> values]

\* The calls of the main workload: two orders of one criteria, and a
\* criteria with a filter.
Queries ==
    {Query(1, <<NAT, REG>>, <<P2024, P2023>>, <<>>),
     Query(1, <<REG, NAT>>, <<P2023, P2024>>, <<>>),
     Query(1, <<NAT>>, <<P2024>>, <<In(DimG, <<<<"M">>>>)>>)}

\* Calls are made one at a time, by one caller.
Next ==
    \/ \E a \in Queries : Call(Main, a)
    \/ Lookup(Main)
    \/ ReturnHit(Main)
    \/ GetMetadata(Main)
    \/ \E resp \in MetaResponses : RecvMetadata(Main, resp)
    \/ PostQuerySend(Main)
    \/ \E resp \in PageResponses(loc[Main].page) : PostQueryRecv(Main, resp)
    \/ BuildTable(Main)
    \/ Store(Main)
    \/ UpdateGraph(Main, DimG)

Spec == Init /\ [][Next]_vars

-----------------------------------------------------------------------------
(* The workload that fills the cache: one criteria after the other, each   *)
(* with a one-page result, and now and then a criteria queried before.     *)
(* The callers only read the tables they are given.                        *)

FifoQuery(i) == Query(i, <<NAT>>, <<P2024>>, <<>>)

\* The next criteria never queried, the oldest and the newest cached one.
FifoQueries ==
    {FifoQuery(i) : i \in
        {j \in {hist.clock + 1} : j <= CacheCapacity + MaxExtra}
        \cup {query_cache[i].key.dataset_id :
                 i \in {1, Len(query_cache)} \cap DOMAIN query_cache}}

OnePageResponses ==
    {Failure} \cup
    {[ok |-> TRUE, warnings |-> w, paging |-> pg, results |-> PageData(1)] :
        w \in {<<>>, <<"NoResults">>}, pg \in {<<>>, <<1>>}}

NextFifo ==
    \/ \E a \in FifoQueries : Call(Main, a)
    \/ Lookup(Main)
    \/ ReturnHit(Main)
    \/ GetMetadata(Main)
    \/ \E resp \in MetaResponses : RecvMetadata(Main, resp)
    \/ PostQuerySend(Main)
    \/ \E resp \in OnePageResponses : PostQueryRecv(Main, resp)
    \/ BuildTable(Main)
    \/ Store(Main)

SpecFifo == Init /\ [][NextFifo]_vars

-----------------------------------------------------------------------------
(* The workload of criteria that differ in their filters: one dimension    *)
(* with its values in two orders, two dimensions in two orders.            *)

DimH == <<"h">>

FilterQueries ==
    {Query(1, <<NAT>>, <<P2024>>, f) : f \in
        {<<In(DimG, <<<<"M">>, <<"F">>>>)>>,
         <<In(DimG, <<<<"F">>, <<"M">>>>)>>,
         <<In(DimG, <<<<"M">>>>), In(DimH, <<<<"X">>>>)>>,
         <<In(DimH, <<<<"X">>>>), In(DimG, <<<<"M">>>>)>>}}

NextFilters ==
    \/ \E a \in FilterQueries : Call(Main, a)
    \/ Lookup(Main)
    \/ ReturnHit(Main)
    \/ GetMetadata(Main)
    \/ \E resp \in MetaResponses : RecvMetadata(Main, resp)
    \/ PostQuerySend(Main)
    \/ \E resp \in OnePageResponses : PostQueryRecv(Main, resp)
    \/ BuildTable(Main)
    \/ Store(Main)

SpecFilters == Init /\ [][NextFilters]_vars

-----------------------------------------------------------------------------
(* The workloads of one criteria whose one-page result varies in what the  *)
(* records hold: the values mappings and the period labels for a criteria  *)
(* without filters, the filters mappings for a criteria with filters.  The *)
(* callers only read the tables they are given.                            *)

\* The composite keys of the values mappings: the indicator asked for, an
\* indicator whose id contains the id asked for, and another one.
KeyIND1 == IND1 \o Sep \o <<"I">>
KeyIND10 == IND1 \o <<"0">> \o Sep \o <<"X">>
KeyIND2 == <<"I", "N", "D", "2">> \o Sep \o <<"I">>

Val(key, val) == [key |-> key, val |-> val]

ValueMaps ==
    {<<Val(KeyIND1, StrVal(<<"4", "2">>))>>,
     <<Val(KeyIND1, StrVal(<<"x">>))>>,
     <<Val(KeyIND1, StrVal(<<"n", "a", "n">>))>>,
     <<Val(KeyIND1, NullVal)>>,
     <<Val(KeyIND2, StrVal(<<"5">>))>>,
     <<Val(KeyIND10, StrVal(<<"7">>)), Val(KeyIND1, StrVal(<<"4", "2">>))>>,
     <<Val(KeyIND1, NullVal), Val(KeyIND10, StrVal(<<"7">>))>>,
     <<Val(KeyIND2, StrVal(<<"5">>)), Val(KeyIND1, NumVal(200))>>}

\* The period labels: two academic years, a plain year, a year with
\* blanks, text that is no number, the years 0 and 2^31, and no label.
Y2024 == <<"2", "0", "2", "4">>
Y2023Blank == <<"2", "0", "2", "3", " ", "/", " ", "2", "0", "2", "4">>
Labels ==
    {<<P2023>>, <<P2024>>, <<Y2024>>, <<Y2023Blank>>, <<<<"x">>>>, <<<<"0">>>>,
     <<CIntLimit \o Slash \o <<"1">>>>, <<>>}

\* The dimensions of the filters mappings: g, one whose id begins with g,
\* and h.
DimGX == <<"g", "x">>
DimK == <<"k">>
HX == <<"X">> \o Sep \o <<"x">>
Flt(name, val) == [name |-> name, val |-> val]

FilterMaps ==
    {<<>>,
     <<Flt(DimG, Male)>>,
     <<Flt(DimG, Female)>>,
     <<Flt(DimG, <<"M">>)>>,
     <<Flt(DimGX, Female), Flt(DimG, Male)>>,
     <<Flt(DimGX, Male), Flt(DimG, Female)>>,
     <<Flt(DimGX, Female)>>,
     <<Flt(DimG, Male), Flt(DimH, HX)>>,
     <<Flt(DimGX, Female), Flt(DimG, Male), Flt(DimH, HX)>>}

TableRecord(label, values, filters) ==
    [timePeriod |-> label, geographicLevel |-> <<NAT>>, locations |-> <<England>>,
     values |-> values, filters |-> filters]

\* A page varies in one of the three.
ValueRecords ==
    {TableRecord(<<P2024>>, v, <<>>) : v \in ValueMaps}
TimeRecords ==
    {TableRecord(l, <<Val(KeyIND1, StrVal(<<"4", "2">>))>>, <<>>) : l \in Labels}
FilterRecords ==
    {TableRecord(<<P2024>>, <<Val(KeyIND1, StrVal(<<"4", "2">>))>>, f) :
        f \in FilterMaps}

\* The largest number of records on the page.
MaxRecords == 2

SeqsUpTo(S, n) == UNION {[1..k -> S] : k \in 0..n}

Eq(name, value) == [name |-> name, op |-> "eq", values |-> <<value>>]

FilterCriteria ==
    {<<In(DimG, <<<<"M">>>>)>>,
     <<In(DimG, <<<<"M">>, <<"F">>>>)>>,
     <<Eq(DimG, <<"M">>)>>,
     <<In(DimK, <<<<"M">>>>)>>,
     <<In(DimG, <<<<"M">>>>), In(DimH, <<<<"X">>>>)>>,
     <<In(DimH, <<<<"X">>>>), In(DimG, <<<<"M">>>>)>>}

\* The criteria without filters, queried again once its table is cached.
TableQueries == {Query(1, <<NAT>>, <<P2024>>, <<>>)}

\* The page the service answers with: records that vary in their values or
\* in their labels.
TableResponses ==
    {Failure} \cup
    {[ok |-> TRUE, warnings |-> <<>>, paging |-> <<1>>, results |-> r] :
        r \in SeqsUpTo(ValueRecords, MaxRecords)
                  \cup SeqsUpTo(TimeRecords, MaxRecords)}

NextTable ==
    \/ \E a \in TableQueries : Call(Main, a)
    \/ Lookup(Main)
    \/ ReturnHit(Main)
    \/ GetMetadata(Main)
    \/ \E resp \in MetaResponses : RecvMetadata(Main, resp)
    \/ PostQuerySend(Main)
    \/ \E resp \in TableResponses : PostQueryRecv(Main, resp)
    \/ BuildTable(Main)
    \/ Store(Main)

SpecTable == Init /\ [][NextTable]_vars

\* One criteria with filters is queried, and queried again once its table
\* is cached.
FilteredQueries ==
    IF query_cache = <<>>
    THEN {Query(1, <<NAT>>, <<P2024>>, f) : f \in FilterCriteria}
    ELSE {query_cache[1].args}

\* The page the service answers with: records that vary in their filters.
FilteredResponses ==
    {Failure} \cup
    {[ok |-> TRUE, warnings |-> <<>>, paging |-> <<1>>, results |-> r] :
        r \in SeqsUpTo(FilterRecords, MaxRecords)}

NextFiltered ==
    \/ \E a \in FilteredQueries : Call(Main, a)
    \/ Lookup(Main)
    \/ ReturnHit(Main)
    \/ GetMetadata(Main)
    \/ \E resp \in MetaResponses : RecvMetadata(Main, resp)
    \/ PostQuerySend(Main)
    \/ \E resp \in FilteredResponses : PostQueryRecv(Main, resp)
    \/ BuildTable(Main)
    \/ Store(Main)

SpecFiltered == Init /\ [][NextFiltered]_vars

-----------------------------------------------------------------------------
(* Properties.                                                             *)

Returns(t) == pc[t] # "idle" /\ pc'[t] = "idle" /\ result'[t].kind = "table"

CachedTable(cache, h, key) == h[EntryOf(cache, key).ref]

\* C1: a call that returns a table for the arguments of the last call that
\* returned one returns an equal table, whatever the caller did in place to
\* the tables it was given; and no step of the caller changes the table the
\* cache holds under a key.
C1_EqualIndependentCopies ==
    [][/\ \A t \in Threads :
            (Returns(t) /\ hist.last_return # <<>>
                /\ hist.last_return[1].args = args[t])
            => heap'[result'[t].ref] = hist.last_return[1].table
       /\ \A k \in Keys(query_cache) \cap Keys(query_cache') :
            EntryOf(query_cache', k).stamp = EntryOf(query_cache, k).stamp
            => CachedTable(query_cache', heap', k) = CachedTable(query_cache, heap, k)
      ]_vars

\* A call has returned the cached table for the arguments of the last call,
\* after the caller had changed the table that call gave it.
C1_Witness ==
    /\ pc[Main] = "idle" /\ result[Main].kind = "table" /\ result[Main].hit
    /\ hist.last_return[1].repeat /\ hist.last_return[1].after_change
    /\ heap[result[Main].ref] = hist.last_return[1].table

Oldest(cache) ==
    cache[CHOOSE i \in 1..Len(cache) :
              \A j \in 1..Len(cache) : cache[i].stamp <= cache[j].stamp]

\* C2: a step that changes a cache of 50 entries removes exactly the entry
\* inserted first: every other entry is still there, and the key of the
\* call is the only new one.
C2_FifoEviction ==
    [][(Len(query_cache) = CacheCapacity /\ query_cache' # query_cache)
       => /\ Oldest(query_cache).key \notin Keys(query_cache')
          /\ \A i \in 1..Len(query_cache) :
                query_cache[i] # Oldest(query_cache)
                => \E j \in 1..Len(query_cache') :
                      /\ query_cache'[j].key = query_cache[i].key
                      /\ query_cache'[j].stamp = query_cache[i].stamp
          /\ Keys(query_cache') \ Keys(query_cache) = {loc[Main].key}
          /\ Len(query_cache') = CacheCapacity
      ]_vars

\* The 51st criteria is in and the first one inserted is the one evicted.
C2_Witness ==
    /\ Len(query_cache) = CacheCapacity
    /\ hist.clock = CacheCapacity + 1
    /\ hist.evicted # <<>> /\ hist.evicted[1].stamp = 1

\* C3: a cache hit leaves the order of the cache as it is, and an eviction
\* takes the entry inserted first also when that entry is the one read last.
C3_FifoNotLru ==
    [][/\ (pc[Main] = "hit" /\ pc'[Main] = "idle") => query_cache' = query_cache
       /\ (hist'.evicted # hist.evicted /\ hist.last_hit # <<>>
             /\ hist.last_hit[1] = Oldest(query_cache).key)
          => hist'.evicted[1].key = hist.last_hit[1]
      ]_vars

\* The entry evicted last is the entry that was read last.
C3_Witness ==
    /\ hist.evicted # <<>> /\ hist.last_hit # <<>>
    /\ hist.evicted[1].key = hist.last_hit[1]
    /\ hist.evicted[1].key \notin Keys(query_cache)

\* C4: the result cache never holds more than 50 entries.
C4_CacheBounded == Len(query_cache) <= CacheCapacity

\* More than 50 criteria have been stored and the cache holds 50.
C4_Witness == hist.clock > CacheCapacity /\ Len(query_cache) = CacheCapacity

\* The same values, in some order.
SameValues(a, b) ==
    /\ Len(a) = Len(b)
    /\ \A x \in {a[i] : i \in 1..Len(a)} \cup {b[i] : i \in 1..Len(b)} :
          Cardinality({i \in 1..Len(a) : a[i] = x})
              = Cardinality({i \in 1..Len(b) : b[i] = x})

SameUpToListOrder(a, b) ==
    /\ a.dataset_id = b.dataset_id /\ a.indicator_id = b.indicator_id
    /\ a.filters = b.filters
    /\ SameValues(a.geo_level_codes, b.geo_level_codes)
    /\ SameValues(a.period_list, b.period_list)

LooksUp(t) == pc[t] = "lookup" /\ pc'[t] # "lookup"

\* C5: a call whose arguments differ from those of the call that inserted a
\* cached entry only in the order of the geographic levels and of the
\* periods is a cache hit.
C5_ListOrderSameSlot ==
    [][\A t \in Threads :
          (LooksUp(t) /\ \E i \in 1..Len(query_cache) :
                            SameUpToListOrder(query_cache[i].args, args[t]))
          => loc'[t].lookup = "hit"
      ]_vars

\* A call was served the table stored by a call that listed the levels and
\* the periods in another order.
C5_Witness ==
    /\ pc[Main] = "idle" /\ result[Main].kind = "table" /\ result[Main].hit
    /\ loc[Main].key \in Keys(query_cache)
    /\ EntryOf(query_cache, loc[Main].key).args.geo_level_codes
           # args[Main].geo_level_codes
    /\ EntryOf(query_cache, loc[Main].key).args.period_list
           # args[Main].period_list

SameItems(f, g) ==
    /\ Len(f) = Len(g)
    /\ \A i \in 1..Len(f) : \E j \in 1..Len(g) :
          /\ f[i].name = g[j].name /\ f[i].op = g[j].op
          /\ SameValues(f[i].values, g[j].values)

SameUpToFilterOrder(a, b) ==
    /\ a.dataset_id = b.dataset_id /\ a.indicator_id = b.indicator_id
    /\ a.geo_level_codes = b.geo_level_codes /\ a.period_list = b.period_list
    /\ SameItems(a.filters, b.filters)

\* C6: a call whose arguments differ from those of the call that inserted a
\* cached entry only in the order of the values listed for a filter
\* dimension, or in the order of the filter dimensions, is a cache hit.
C6_FilterOrderSameSlot ==
    [][\A t \in Threads :
          (LooksUp(t) /\ \E i \in 1..Len(query_cache) :
                            SameUpToFilterOrder(query_cache[i].args, args[t]))
          => loc'[t].lookup = "hit"
      ]_vars

\* C7: a call that found its key in the cache has made no request; only a
\* call that missed has requested metadata or a page.
C7_NoRequestOnHit ==
    \A t \in Threads :
        /\ log[t] # <<>> => loc[t].lookup = "miss"
        /\ (pc[t] = "idle" /\ result[t].hit) => log[t] = <<>>

\* A call has returned from the cache.
C7_Witness ==
    /\ pc[Main] = "idle" /\ result[Main].kind = "table" /\ result[Main].hit
    /\ loc[Main].lookup = "hit" /\ log[Main] = <<>>

IsPageReq(e) == e.e = "req_page"
IsPageResp(e) == e.e = "resp_page"
IsPageEvent(e) == IsPageReq(e) \/ IsPageResp(e)
PageReqs(t) == SelectSeq(log[t], IsPageReq)
PageResps(t) == SelectSeq(log[t], IsPageResp)
PageEvents(t) == SelectSeq(log[t], IsPageEvent)

RECURSIVE Flatten(_)
Flatten(ss) == IF ss = <<>> THEN <<>> ELSE Head(ss) \o Flatten(Tail(ss))

\* The call is through its pagination loop: the table is built, or stored
\* and returned.
PastLoop(t) ==
    \/ pc[t] = "store"
    \/ pc[t] = "idle" /\ result[t].kind = "table" /\ ~result[t].hit

\* C8: when the call is through pagination and every page response
\* reported the same totalPages N >= 1, the page requests were N, for the
\* pages 1 to N in this order, each answered before the next was made, and
\* the records accumulated are those of the N responses in page order.
C8_Pagination ==
    \A t \in Threads : \A N \in 1..(MaxPages + 1) :
        (/\ PastLoop(t)
         /\ PageResps(t) # <<>>
         /\ \A i \in 1..Len(PageResps(t)) : PageResps(t)[i].paging = <<N>>)
        => /\ Len(PageReqs(t)) = N
           /\ \A i \in 1..N : PageReqs(t)[i].page = i
           /\ Len(PageEvents(t)) = 2 * N
           /\ \A i \in 1..N :
                 /\ IsPageReq(PageEvents(t)[2 * i - 1])
                 /\ IsPageResp(PageEvents(t)[2 * i])
                 /\ PageEvents(t)[2 * i].page = i
           /\ loc[t].all_results =
                  Flatten([i \in 1..N |-> PageResps(t)[i].results])

\* A call is through a pagination of more than one page, all of whose
\* responses reported the same total.
C8_Witness ==
    /\ PastLoop(Main)
    /\ Len(PageResps(Main)) >= 2
    /\ \A i \in 1..Len(PageResps(Main)) :
          PageResps(Main)[i].paging = <<Len(PageResps(Main))>>
    /\ Len(loc[Main].all_results) >= 2

CarriesNoData(e) ==
    /\ e.e = "resp_page" /\ e.ok
    /\ \E i \in 1..Len(e.warnings) : e.warnings[i] = "NoResults"

\* C9: a page response with a no-data warning is the last event of its
\* call, which has ended with the no-data error and no table, whatever
\* total the response reported.
C9_NoDataFailsFast ==
    \A t \in Threads : \A i \in 1..Len(log[t]) :
        CarriesNoData(log[t][i])
        => /\ i = Len(log[t])
           /\ pc[t] = "idle"
           /\ result[t].kind = "error" /\ result[t].err = "ValueError"

\* A call ended on a no-data warning that was not the first warning of its
\* response, on a page after which the response announced more pages.
C9_Witness ==
    /\ log[Main] # <<>>
    /\ LET e == log[Main][Len(log[Main])]
       IN  /\ CarriesNoData(e)
           /\ e.warnings[1] # "NoResults"
           /\ e.paging # <<>> /\ e.paging[1] > e.page
    /\ result[Main].kind = "error"

\* C10: a failed metadata or page request is the last event of its call,
\* which has ended with that error and no table.
C10_FailurePropagates ==
    \A t \in Threads : \A i \in 1..Len(log[t]) :
        ~log[t][i].ok
        => /\ i = Len(log[t])
           /\ pc[t] = "idle"
           /\ result[t].kind = "error" /\ result[t].err = "HTTPError"

\* A call ended on the failure of a page request made after a page had
\* been fetched.
C10_Witness ==
    /\ log[Main] # <<>>
    /\ LET e == log[Main][Len(log[Main])]
       IN  e.e = "resp_page" /\ ~e.ok /\ e.page >= 2
    /\ loc[Main].all_results # <<>>
    /\ result[Main].kind = "error"

-----------------------------------------------------------------------------
(* Properties of the table a call builds.                                  *)

\* The call fetched, built, stored and returned its table.
Built(t) == pc[t] = "idle" /\ result[t].kind = "table" /\ ~result[t].hit

Table(t) == heap[result[t].ref]
Raw(t) == loc[t].all_results

\* The rows of the returned table made from the j-th record fetched.
RowsFrom(t, j) ==
    {i \in 1..Len(Table(t).rows) : Table(t).rows[i].src = j}

\* The place of the first key of a values mapping that contains the
\* indicator id, 0 when no key does.
FirstMatch(values, indicator_id) ==
    LET hits == {i \in 1..Len(values) : Contains(values[i].key, indicator_id)}
    IN  IF hits = {} THEN 0 ELSE CHOOSE i \in hits : \A j \in hits : i <= j

\* C11: in the table of a call without filters, a record whose value under
\* the indicator is null has no row; a record whose value is a number, or
\* a text that parses as one, has one row with that number, which is no
\* text; a record whose value is any other text has one row with that text.
C11_Normalisation ==
    \A t \in Threads :
        (Built(t) /\ args[t].filters = <<>>)
        => \A j \in 1..Len(Raw(t)) :
              LET m == FirstMatch(Raw(t)[j].values, args[t].indicator_id)
                  v == Raw(t)[j].values[m].val
                  OneRow(cell) ==
                      /\ Cardinality(RowsFrom(t, j)) = 1
                      /\ \A i \in RowsFrom(t, j) : Table(t).rows[i].value = cell
              IN  m > 0 =>
                     IF v.t = "null" THEN RowsFrom(t, j) = {}
                     ELSE IF v.t = "num" THEN OneRow(NumCell(v.n))
                     ELSE IF FloatParse(v.s).ok
                     THEN FloatParse(v.s).v.t # "str" /\ OneRow(FloatParse(v.s).v)
                     ELSE OneRow(StrCell(v.s))

\* A table was built from a record whose value is a text that is no number
\* and a record whose value is null: it has the one row of the text, and so
\* has the copy the cache holds.
C11_Witness ==
    /\ Built(Main) /\ args[Main].filters = <<>> /\ Len(Raw(Main)) = 2
    /\ Raw(Main)[1].values = <<Val(KeyIND1, StrVal(<<"x">>))>>
    /\ Raw(Main)[2].values = <<Val(KeyIND1, NullVal)>>
    /\ Len(Table(Main).rows) = 1
    /\ Table(Main).rows[1].value = StrCell(<<"x">>)
    /\ \E e \in {query_cache[i] : i \in 1..Len(query_cache)} :
          /\ Len(heap[e.ref].rows) = 1
          /\ heap[e.ref].rows[1].value = StrCell(<<"x">>)

\* C12: every row of the table of a call was made from a record that has,
\* under some key that contains the indicator id, a value that is not null;
\* a record none of whose keys contains the indicator id has no row.
C12_NoIndicatorDropped ==
    \A t \in Threads :
        Built(t)
        => /\ \A i \in 1..Len(Table(t).rows) :
                 LET values == Raw(t)[Table(t).rows[i].src].values
                 IN  \E k \in 1..Len(values) :
                        /\ Contains(values[k].key, args[t].indicator_id)
                        /\ values[k].val.t # "null"
           /\ \A j \in 1..Len(Raw(t)) :
                 (\A k \in 1..Len(Raw(t)[j].values) :
                     ~Contains(Raw(t)[j].values[k].key, args[t].indicator_id))
                 => RowsFrom(t, j) = {}

\* A table of one row was built from a record of another indicator only
\* and a record of the indicator asked for.
C12_Witness ==
    /\ Built(Main) /\ Len(Raw(Main)) = 2
    /\ Raw(Main)[1].values = <<Val(KeyIND2, StrVal(<<"5">>))>>
    /\ Raw(Main)[2].values = <<Val(KeyIND1, StrVal(<<"4", "2">>))>>
    /\ Len(Table(Main).rows) = 1
    /\ Table(Main).rows[1].src = 2

\* C13: in the table of a call without filters, a record with a key that
\* contains the indicator id has a row exactly when the value under the
\* first such key is not null, and the row holds that value as converted,
\* whatever the later keys hold.
C13_FirstMatch ==
    \A t \in Threads :
        (Built(t) /\ args[t].filters = <<>>)
        => \A j \in 1..Len(Raw(t)) :
              LET m == FirstMatch(Raw(t)[j].values, args[t].indicator_id)
                  first == Raw(t)[j].values[m]
              IN  m > 0 =>
                     /\ RowsFrom(t, j) # {} <=> first.val.t # "null"
                     /\ \A i \in RowsFrom(t, j) :
                           Table(t).rows[i].value = ParseValue(first.val)

\* A table was built from a record whose first matching key is that of
\* another indicator, whose value the row holds, and from a record whose
\* first matching key holds null and a later one a value, which has no row.
C13_Witness ==
    /\ Built(Main) /\ args[Main].filters = <<>> /\ Len(Raw(Main)) = 2
    /\ Raw(Main)[1].values =
           <<Val(KeyIND10, StrVal(<<"7">>)), Val(KeyIND1, StrVal(<<"4", "2">>))>>
    /\ Raw(Main)[2].values =
           <<Val(KeyIND1, NullVal), Val(KeyIND10, StrVal(<<"7">>))>>
    /\ Len(Table(Main).rows) = 1
    /\ Table(Main).rows[1].value = NumCell(7)

\* The id part of a composite value: the text before " :: ", or all of it.
IdPart(value) == IF Contains(value, Sep) THEN BeforeFirst(value, Sep) ELSE value

\* An id meets a criterion: it is among the values of "in", or is the
\* value of "eq".
Meets(id, f) ==
    IF f.op = "in" THEN \E i \in 1..Len(f.values) : f.values[i] = id
    ELSE id = f.values[1]

\* The j-th record fetched has a value for the dimension of f whose id part
\* meets f.
RecordPasses(t, j, f) ==
    \E i \in 1..Len(Raw(t)[j].filters) :
        /\ Raw(t)[j].filters[i].name = f.name
        /\ Meets(IdPart(Raw(t)[j].filters[i].val), f)

\* The records that normalisation keeps: those with a value that is not
\* null under the first key that contains the indicator id.
Normalised(t) ==
    {j \in 1..Len(Raw(t)) :
        LET m == FirstMatch(Raw(t)[j].values, args[t].indicator_id)
        IN  m > 0 /\ Raw(t)[j].values[m].val.t # "null"}

\* The normalised table has the column filter_d: some record kept has a
\* value for the dimension d.
HasColumn(t, d) ==
    \E j \in Normalised(t) : \E i \in 1..Len(Raw(t)[j].filters) :
        Raw(t)[j].filters[i].name = d

\* The records the rows of the returned table were made from.
Sources(t) == {Table(t).rows[i].src : i \in 1..Len(Table(t).rows)}

Requested(t) == {args[t].filters[i] : i \in 1..Len(args[t].filters)}

\* C14: the table of a call with one filter dimension, whose column the
\* normalised table has, holds the rows of exactly the records whose
\* value for that dimension has an id part that meets the criterion.
C14_FilterById ==
    \A t \in Threads :
        (Built(t) /\ Len(args[t].filters) = 1
            /\ HasColumn(t, args[t].filters[1].name))
        => Sources(t) =
               {j \in Normalised(t) : RecordPasses(t, j, args[t].filters[1])}

\* C15: a row of the table of a call with filters has, for every requested
\* dimension whose column the normalised table has, a value in that column
\* whose id part meets the criterion.
C15_OwnColumn ==
    \A t \in Threads :
        Built(t)
        => \A f \in Requested(t) :
              HasColumn(t, f.name)
              => \A j \in Sources(t) : RecordPasses(t, j, f)

\* The call made its requests and none failed or carried a no-data
\* warning.
Answered(t) ==
    /\ pc[t] = "idle" /\ log[t] # <<>>
    /\ \A i \in 1..Len(log[t]) : log[t][i].ok /\ ~CarriesNoData(log[t][i])

\* C16: a call none of whose requested dimensions has a column in the
\* normalised table ends without error, with the rows of all the records
\* normalisation kept.
C16_AbsentColumnNoOp ==
    \A t \in Threads :
        (Answered(t) /\ args[t].filters # <<>>
            /\ \A f \in Requested(t) : ~HasColumn(t, f.name))
        => /\ result[t].kind = "table"
           /\ Sources(t) = Normalised(t)

\* C17: the table of a call with several filter dimensions holds the rows
\* of exactly the records that pass the criterion of every requested
\* dimension that has a column, in whichever order the dimensions are
\* given.
C17_Conjunction ==
    \A t \in Threads :
        (Built(t) /\ Len(args[t].filters) >= 2)
        => Sources(t) =
               {j \in Normalised(t) :
                   \A f \in Requested(t) :
                       HasColumn(t, f.name) => RecordPasses(t, j, f)}

-----------------------------------------------------------------------------
(* Properties of the time axis.                                            *)

\* The label the j-th record fetched gives its row.
LabelOf(t, j) ==
    IF Raw(t)[j].timePeriod = <<>> THEN Unknown ELSE Raw(t)[j].timePeriod[1]

\* The part of a label that is read as the year.
YearPart(label) ==
    IF Contains(label, Slash) THEN BeforeFirst(label, Slash) ELSE label

\* C18: in the table a call built, no time_period is left as the label it
\* was fetched with: the conversion of no label raised.  The row of a label
\* whose year part, the text before the first "/" or the whole label,
\* parses as a year Y that a Timestamp holds has September 1st of Y, and the
\* row of a label whose year part parses as no integer has the no-value
\* sentinel.
C18_PeriodParse ==
    \A t \in Threads :
        Built(t)
        => \A i \in 1..Len(Table(t).rows) :
              LET cell == Table(t).rows[i].time_period
                  p == IntParse(YearPart(LabelOf(t, Table(t).rows[i].src)))
              IN  /\ cell.t # "label"
                  /\ (p.ok /\ ~p.big /\ p.n \in NsYears) => cell = TsCell(p.n)
                  /\ ~p.ok => cell = NaT

\* The time point of a row: the year its cell holds, or the year its label
\* stands for when the cell still holds the label; none for the sentinel
\* and for a label that stands for no year that has a time point.
Point(cell) ==
    LET p == IntParse(YearPart(cell.s))
    IN  IF cell.t = "ts" THEN [has |-> TRUE, far |-> FALSE, year |-> cell.year]
        ELSE IF cell.t = "label" /\ p.ok /\ p.big
        THEN [has |-> TRUE, far |-> TRUE, year |-> 0]
        ELSE IF cell.t = "label" /\ p.ok /\ p.n \in DatetimeYears
        THEN [has |-> TRUE, far |-> FALSE, year |-> p.n]
        ELSE [has |-> FALSE, far |-> FALSE, year |-> 0]

\* a is not later than b.
NotLater(a, b) == b.far \/ (~a.far /\ a.year <= b.year)

\* C19: the table of a call without filters has a row for every record
\* normalisation kept; its rows with a time point are in ascending order of
\* it, and its rows without one are all before or all after them.
C19_Chronological ==
    \A t \in Threads :
        (Built(t) /\ args[t].filters = <<>>)
        => LET rows == Table(t).rows
               P(i) == Point(rows[i].time_period)
           IN  /\ Sources(t) = Normalised(t)
               /\ Len(rows) = Cardinality(Normalised(t))
               /\ \A i, j \in 1..Len(rows) :
                     (i < j /\ P(i).has /\ P(j).has) => NotLater(P(i), P(j))
               /\ \/ \A i, j \in 1..Len(rows) :
                        (i < j /\ ~P(i).has) => ~P(j).has
                  \/ \A i, j \in 1..Len(rows) :
                        (i < j /\ ~P(j).has) => ~P(i).has

\* C20: rows of the returned table with equal time points are in the order
\* in which their records were fetched.
C20_StableSort ==
    \A t \in Threads :
        Built(t)
        => \A i, j \in 1..Len(Table(t).rows) :
              (i < j /\ Table(t).rows[i].time_period = Table(t).rows[j].time_period)
              => Table(t).rows[i].src < Table(t).rows[j].src

-----------------------------------------------------------------------------
(* The workload of period lists: one dataset whose metadata lists the      *)
(* periods in one of several ways, queried for up to MaxPeriods labels.    *)
(* One criteria is queried, and queried again once its table is cached.    *)

\* The largest number of labels in a period list.
MaxPeriods == 2

TP(code, period) == [code |-> code, period |-> period]

\* The timePeriods lists of the metadata: none, one period, a period listed
\* under two codes, and the same two in the other order after another
\* period.
PeriodMetas ==
    {[timePeriods |-> tps] : tps \in
        {<<>>,
         <<TP("AY", P2024)>>,
         <<TP("CY", P2023), TP("AY", P2023), TP("FY", P2024)>>,
         <<TP("FY", P2024), TP("AY", P2023), TP("CY", P2023)>>}}

PeriodMetaResponses ==
    {[ok |-> FALSE, meta |-> Meta]} \cup {[ok |-> TRUE, meta |-> m] : m \in PeriodMetas}

PeriodLists == SeqsUpTo({P2023, P2024, Y2024}, MaxPeriods) \ {<<>>}

PeriodQueries ==
    IF query_cache = <<>>
    THEN {Query(1, <<NAT>>, p, <<>>) : p \in PeriodLists}
    ELSE {query_cache[1].args}

NextPeriods ==
    \/ \E a \in PeriodQueries : Call(Main, a)
    \/ Lookup(Main)
    \/ ReturnHit(Main)
    \/ GetMetadata(Main)
    \/ \E resp \in PeriodMetaResponses : RecvMetadata(Main, resp)
    \/ PostQuerySend(Main)
    \/ \E resp \in OnePageResponses : PostQueryRecv(Main, resp)
    \/ BuildTable(Main)
    \/ Store(Main)

SpecPeriods == Init /\ [][NextPeriods]_vars

-----------------------------------------------------------------------------
(* Properties of the request body and of the metadata memo.                *)

\* The call of t has its request body.
HasPayload(t) == pc[t] \in {"loop", "await", "store"}

\* The descriptor the memo holds for a dataset id.
Memo(d) ==
    meta_cache[CHOOSE i \in 1..Len(meta_cache) : meta_cache[i].dataset_id = d].meta

\* C21: the request body has one {code, period} entry per requested label,
\* in request order: a label the metadata lists gets the code of the first
\* metadata entry of that period, any other label gets the code "AY".
C21_TimePeriodCriteria ==
    \A t \in Threads :
        HasPayload(t)
        => LET sent == loc[t].payload.timePeriods
               asked == args[t].period_list
               listed == Memo(args[t].dataset_id).timePeriods
               Of(p) == {j \in 1..Len(listed) : listed[j].period = p}
           IN  /\ Len(sent) = Len(asked)
               /\ \A i \in 1..Len(asked) :
                     /\ sent[i].period = asked[i]
                     /\ IF Of(asked[i]) = {}
                        THEN sent[i].code = "AY"
                        ELSE \E j \in Of(asked[i]) :
                                /\ \A k \in Of(asked[i]) : j <= k
                                /\ sent[i].code = listed[j].code

\* A page is awaited under a body for two labels, in an order that is not
\* the sorted one: the first is not in the metadata, the second is listed
\* twice, under different codes.
C21_Witness ==
    /\ pc[Main] = "await"
    /\ args[Main].period_list = <<Y2024, P2023>>
    /\ Memo(1).timePeriods = <<TP("CY", P2023), TP("AY", P2023), TP("FY", P2024)>>
    /\ loc[Main].payload.timePeriods = <<TP("AY", Y2024), TP("CY", P2023)>>

-----------------------------------------------------------------------------
(* The workload that fills the metadata memo: one dataset after the other  *)
(* is queried for one period, and once the memo is full, now and then a    *)
(* dataset whose descriptor is the first or the last of the memo is        *)
(* queried for the other period.  The page requests succeed.               *)

\* The number of datasets the workload queries beyond the memo's capacity.
MaxMetaExtra == 2

MemoQueries ==
    {Query(d, <<NAT>>, <<P2024>>, <<>>) :
        d \in {j \in {Len(hist.fetched) + 1} : j <= MetaCapacity + MaxMetaExtra}}
    \cup {Query(meta_cache[i].dataset_id, <<NAT>>, <<P2023>>, <<>>) :
             i \in {j \in {1, Len(meta_cache)} : Len(meta_cache) = MetaCapacity}}

MemoPageResponses ==
    {[ok |-> TRUE, warnings |-> <<>>, paging |-> <<1>>, results |-> PageData(1)]}

NextMemo ==
    \/ \E a \in MemoQueries : Call(Main, a)
    \/ Lookup(Main)
    \/ ReturnHit(Main)
    \/ GetMetadata(Main)
    \/ \E resp \in MetaResponses : RecvMetadata(Main, resp)
    \/ PostQuerySend(Main)
    \/ \E resp \in MemoPageResponses : PostQueryRecv(Main, resp)
    \/ BuildTable(Main)
    \/ Store(Main)

SpecMemo == Init /\ [][NextMemo]_vars

MemoIds(cache) == {cache[i].dataset_id : i \in 1..Len(cache)}

\* C22: a call of get_metadata for a dataset id the memo holds makes no
\* remote request and gives the descriptor the memo holds, and the memo
\* never holds more than MetaCapacity descriptors.
C22_BoundedMemo ==
    [][/\ Len(meta_cache') <= MetaCapacity
       /\ \A t \in Threads :
             (pc[t] = "meta" /\ pc'[t] # "meta"
                 /\ args[t].dataset_id \in MemoIds(meta_cache))
             => /\ log'[t] = log[t]
                /\ pc'[t] = "loop"
                /\ loc'[t].payload = Payload(args[t], Memo(args[t].dataset_id))
                /\ MemoIds(meta_cache') = MemoIds(meta_cache)]_vars

\* A full memo has served a descriptor without a request.
C22_Witness ==
    /\ Len(meta_cache) = MetaCapacity
    /\ Len(hist.fetched) > MetaCapacity
    /\ pc[Main] = "loop"
    /\ log[Main] = <<>>

\* The descriptor that leaves the memo in a step that fetches a new dataset
\* id into a full memo, as a set: empty in any other step.
Dropped ==
    IF Len(meta_cache) = MetaCapacity
           /\ MemoIds(meta_cache') \ MemoIds(meta_cache) # {}
    THEN MemoIds(meta_cache) \ MemoIds(meta_cache')
    ELSE {}

\* The first of the ids of a set in an order of ids.
FirstOf(order, ids) ==
    {order[i] : i \in {j \in 1..Len(order) :
                          /\ order[j] \in ids
                          /\ \A k \in 1..(j - 1) : order[k] \notin ids}}

\* C23, as claimed: the descriptor that leaves a full memo is the one
\* fetched the longest ago, whichever descriptors were read since.
C23_OldestFetchedEvicted ==
    [][Dropped \subseteq FirstOf(hist.fetched, MemoIds(meta_cache))]_vars

\* C23, amended: the descriptor that leaves a full memo is the one used the
\* longest ago, where a descriptor is used when it is fetched and each time
\* it is read: a read since the fetch keeps it.
C23_LeastRecentlyUsedEvicted ==
    [][/\ Cardinality(Dropped) <= 1
       /\ Dropped \subseteq FirstOf(hist.used, MemoIds(meta_cache))
       /\ (Len(meta_cache) = MetaCapacity
              /\ MemoIds(meta_cache') \ MemoIds(meta_cache) # {})
          => Dropped # {}]_vars

\* The oldest-fetched descriptor was read after the memo filled up, and is
\* in the memo after a later fetch dropped another one.
C23_Witness ==
    /\ Len(hist.fetched) > MetaCapacity
    /\ hist.fetched[1] \in MemoIds(meta_cache)
    /\ hist.used[1] # hist.fetched[1]

-----------------------------------------------------------------------------
(* The workload of paginations: one criteria whose page responses report   *)
(* any total up to MaxTotal, or none, a different one on every page.       *)

\* The largest totalPages a response of this workload reports.
MaxTotal == 3

PagesQueries == {Query(1, <<NAT>>, <<P2024>>, <<>>)}

PagesResponses(page) ==
    {Failure} \cup
    {[ok |-> TRUE, warnings |-> w, paging |-> pg, results |-> PageData(page)] :
        w \in {<<>>, <<"NoResults">>},
        pg \in {<<>>} \cup {<<n>> : n \in 0..MaxTotal}}

NextPages ==
    \/ \E a \in PagesQueries : Call(Main, a)
    \/ Lookup(Main)
    \/ ReturnHit(Main)
    \/ GetMetadata(Main)
    \/ \E resp \in MetaResponses : RecvMetadata(Main, resp)
    \/ PostQuerySend(Main)
    \/ \E resp \in PagesResponses(loc[Main].page) : PostQueryRecv(Main, resp)
    \/ BuildTable(Main)
    \/ Store(Main)

SpecPages == Init /\ [][NextPages]_vars

\* post_query blocks until the service has answered or the request has
\* timed out (line 75, timeout=30), and the loop runs on between requests.
PagesFairness ==
    /\ WF_vars(PostQuerySend(Main))
    /\ WF_vars(\E resp \in PagesResponses(loc[Main].page) : PostQueryRecv(Main, resp))

SpecPagesFair == Init /\ [][NextPages]_vars /\ PagesFairness

\* The call of t is in its pagination loop: it waits for a page, or it is
\* at the loop test (line 161) with a page to request.
InLoop(t) ==
    \/ pc[t] = "await"
    \/ pc[t] = "loop" /\ LoopCond(loc[t].page, loc[t].total_pages)

\* The total a page response stands for: 1 without paging information.
Total(e) == IF e.paging = <<>> THEN 1 ELSE e.paging[1]

\* The largest total the page responses of the call have reported, and 1
\* when that is less.
LargestTotal(t) ==
    LET totals == {1} \cup {Total(PageResps(t)[i]) : i \in 1..Len(PageResps(t))}
    IN  CHOOSE m \in totals : \A n \in totals : n <= m

\* C28: a call makes no more page requests than the largest total its
\* page responses have reported, or one when they reported less; it has
\* made at least one when it is through the loop; and a call in the loop
\* gets out of it.
C28_PaginationTerminates ==
    /\ [](\A t \in Threads :
             /\ Len(PageReqs(t)) <= LargestTotal(t)
             /\ (PastLoop(t) \/ pc[t] = "await") => Len(PageReqs(t)) >= 1)
    /\ \A t \in Threads : InLoop(t) ~> ~InLoop(t)

\* A call is through a loop of as many requests as the largest total
\* reported, which is more than one.
C28_Witness ==
    /\ PastLoop(Main)
    /\ Len(PageReqs(Main)) = LargestTotal(Main)
    /\ LargestTotal(Main) = MaxTotal

\* C29: the loop goes by the total of the latest response alone.  Between
\* requests the bound is the total of the latest response; a request for
\* the next page is made only within it; and a call is through the loop at
\* the first response whose total its page number had reached, whatever
\* totals came before.
C29_LatestTotalOnly ==
    \A t \in Threads :
        LET resps == PageResps(t)
            n == Len(resps)
        IN  /\ (pc[t] = "loop" /\ n >= 1)
               => /\ loc[t].total_pages = Total(resps[n])
                  /\ loc[t].page = n + 1
            /\ (pc[t] = "await" /\ n >= 1) => n + 1 <= Total(resps[n])
            /\ PastLoop(t)
               => /\ n >= 1
                  /\ n + 1 > Total(resps[n])
                  /\ \A k \in 1..(n - 1) : k + 1 <= Total(resps[k])

\* A call is through the loop after two pages although the first response
\* announced three.
C29_Witness ==
    /\ PastLoop(Main)
    /\ Len(PageResps(Main)) = 2
    /\ Total(PageResps(Main)[1]) = 3
    /\ Len(PageReqs(Main)) = 2

-----------------------------------------------------------------------------
(* Concurrent callers.  Dash serves callbacks on the threads of its        *)
(* server, so two calls of query_dataset can be in progress at once.  The  *)
(* interpreter switches threads between the statements of lines 252-254,   *)
(* which Store above runs through without a switch, as a lone caller does. *)

\* Line 252: if len(query_cache) >= 50
StoreCheck(t) ==
    /\ pc[t] = "store"
    /\ pc' = [pc EXCEPT ![t] =
                 IF Len(query_cache) >= CacheCapacity THEN "pop" ELSE "insert"]
    /\ UNCHANGED <<query_cache, meta_cache, heap, args, loc, result, log, hist, graph>>

\* Line 253: query_cache.popitem(last=False), KeyError on an empty cache.
StorePop(t) ==
    /\ pc[t] = "pop"
    /\ IF query_cache = <<>>
       THEN /\ Raise(t, "KeyError")
            /\ UNCHANGED <<query_cache, hist>>
       ELSE /\ query_cache' = Tail(query_cache)
            /\ hist' = [hist EXCEPT !.evicted =
                           <<[key |-> Head(query_cache).key,
                              stamp |-> Head(query_cache).stamp]>>]
            /\ pc' = [pc EXCEPT ![t] = "insert"]
            /\ heap' = Collect(heap, query_cache', result, loc)
            /\ UNCHANGED <<loc, result>>
    /\ UNCHANGED <<meta_cache, args, log, graph>>

\* Lines 254-256: query_cache[cache_key] = df.copy(); return df
StoreInsert(t) ==
    /\ pc[t] = "insert"
    /\ LET c == StoredRef(heap, loc[t].df)
           tbl == heap[loc[t].df]
           entry == [key |-> loc[t].key, ref |-> c, stamp |-> hist.clock + 1,
                     args |-> args[t]]
       IN  /\ query_cache' = SetItem(query_cache, entry)
           /\ result' = [result EXCEPT ![t] = Returned(loc[t].df, FALSE)]
           /\ loc' = [loc EXCEPT ![t].df = 0]
           /\ heap' = Collect((c :> tbl) @@ heap, query_cache', result', loc')
           /\ hist' = [hist EXCEPT
                          !.clock = @ + 1,
                          !.last_return = Snapshot(args[t], tbl),
                          !.dirty = FALSE]
    /\ pc' = [pc EXCEPT ![t] = "idle"]
    /\ UNCHANGED <<meta_cache, args, log, graph>>

\* The number of insertions the workload goes on for once the cache is one
\* entry short of its capacity.
MaxRace == 2

\* One caller fills the cache, one criteria after the other, until it is
\* one entry short of its capacity; from then on both callers query: a
\* criteria never queried before, each its own, or the oldest one cached.
ThreadQueries(t) ==
    IF Len(query_cache) < CacheCapacity - 1
    THEN {FifoQuery(i) : i \in {j \in {hist.clock + 1} :
                                  t = Main /\ \A u \in Threads : pc[u] = "idle"}}
    ELSE {q \in {FifoQuery(hist.clock + 1),
                 Query(hist.clock + 1, <<REG>>, <<P2024>>, <<>>),
                 FifoQuery(query_cache[1].key.dataset_id)} :
             /\ hist.clock < CacheCapacity - 1 + MaxRace
             /\ (t = Main) = (q.geo_level_codes = <<NAT>>)
                \/ q.dataset_id = query_cache[1].key.dataset_id}

NextThreads ==
    \E t \in Threads :
        \/ \E a \in ThreadQueries(t) : Call(t, a)
        \/ Lookup(t)
        \/ ReturnHit(t)
        \/ GetMetadata(t)
        \/ \E resp \in MetaResponses : RecvMetadata(t, resp)
        \/ PostQuerySend(t)
        \/ \E resp \in MemoPageResponses : PostQueryRecv(t, resp)
        \/ BuildTable(t)
        \/ StoreCheck(t)
        \/ StorePop(t)
        \/ StoreInsert(t)

SpecThreads == Init /\ [][NextThreads]_vars

\* C24: with calls in progress on two threads the result cache never holds
\* more than CacheCapacity entries, and a key found by the lookup is there
\* when it is read.
C24_AtomicCache ==
    /\ Len(query_cache) <= CacheCapacity
    /\ \A t \in Threads : pc[t] = "hit" => loc[t].key \in Keys(query_cache)

-----------------------------------------------------------------------------
(* The workload of the callback: update_graph queries with the selected    *)
(* dimension and values as the one filter, and puts out a figure and a     *)
(* message for what it gets.  The page varies in the records' labels,      *)
(* values and filters; one criteria is queried, and queried again once its *)
(* table is cached.                                                        *)

Num(digits) == <<Val(KeyIND1, StrVal(digits))>>
Txt == <<Val(KeyIND1, StrVal(<<"x">>))>>
FarLabel == <<CIntLimit \o Slash \o <<"1">>>>

GraphRecords ==
    {TableRecord(<<P2024>>, Num(<<"4", "2">>), <<Flt(DimG, Male)>>),
     TableRecord(<<P2024>>, Num(<<"7">>), <<Flt(DimG, Male)>>),
     TableRecord(<<P2024>>, Txt, <<Flt(DimG, Male)>>),
     TableRecord(<<P2023>>, Txt, <<Flt(DimG, Male)>>),
     TableRecord(<<P2023>>, Num(<<"7">>), <<Flt(DimG, Female)>>),
     TableRecord(<<P2023>>, Txt, <<Flt(DimG, Female)>>),
     TableRecord(<<P2024>>, Num(<<"4", "2">>), <<Flt(DimGX, Female)>>),
     TableRecord(<<<<"x">>>>, Num(<<"4", "2">>), <<Flt(DimG, Male)>>),
     TableRecord(FarLabel, Num(<<"4", "2">>), <<Flt(DimG, Male)>>),
     TableRecord(<<P2024>>, <<Val(KeyIND1, NumVal(200))>>, <<>>)}

\* The largest number of records on the page of this workload.
MaxRows == 2

GraphCriteria ==
    {<<In(DimG, <<<<"M">>>>)>>,
     <<In(DimG, <<<<"M">>, <<"F">>>>)>>,
     <<In(DimK, <<<<"M">>>>)>>}

GraphQueries ==
    IF query_cache = <<>>
    THEN {Query(1, <<NAT>>, <<P2024, P2023>>, f) : f \in GraphCriteria}
    ELSE {query_cache[1].args}

GraphResponses ==
    {Failure,
     [ok |-> TRUE, warnings |-> <<"NoResults">>, paging |-> <<1>>, results |-> <<>>]}
    \cup {[ok |-> TRUE, warnings |-> <<>>, paging |-> <<1>>, results |-> r] :
             r \in SeqsUpTo(GraphRecords, MaxRows)}

\* Line 177 of app.py: the dimension passed on is the one of the filter.
SelectedDim(t) == args[t].filters[1].name

NextGraph ==
    \/ \E a \in GraphQueries : Call(Main, a)
    \/ Lookup(Main)
    \/ ReturnHit(Main)
    \/ GetMetadata(Main)
    \/ \E resp \in MetaResponses : RecvMetadata(Main, resp)
    \/ PostQuerySend(Main)
    \/ \E resp \in GraphResponses : PostQueryRecv(Main, resp)
    \/ BuildTable(Main)
    \/ Store(Main)
    \/ UpdateGraph(Main, SelectedDim(Main))

SpecGraph == Init /\ [][NextGraph]_vars

\* update_graph has put out the figure and the message for the table the
\* call of t returned.
Plotted(t) ==
    pc[t] = "idle" /\ result[t].kind = "table" /\ graph[t] # NoGraph

\* C25: a call whose table has no rows returns that table and does not
\* raise, and what update_graph puts out for an empty table is an empty
\* figure with the message "Error: No data found for this combination.".
C25_EmptyResultMessage ==
    /\ [](\A t \in Threads :
             (Plotted(t) /\ Empty(Table(t)))
             => graph[t] = [figure |-> "scatter", data |-> <<>>, kind |-> "Error",
                            text |-> "No data found for this combination.",
                            years |-> <<>>])
    /\ [][\A t \in Threads :
             (pc[t] = "store" /\ Empty(heap[loc[t].df]) /\ pc'[t] # "store")
             => /\ pc'[t] = "idle"
                /\ result'[t].kind = "table"
                /\ Empty(heap'[result'[t].ref])]_vars

\* The message is out for a table that lost all its rows to the filter.
C25_Witness ==
    /\ Plotted(Main)
    /\ Empty(Table(Main))
    /\ Raw(Main) # <<>>
    /\ Normalised(Main) # {}
    /\ graph[Main].text = "No data found for this combination."

\* C26: when the table update_graph passes on has rows but no column
\* filter_d for the selected dimension d, what it puts out is the message
\* of the ValueError "Selected filter dimension not found in returned
\* data.".
C26_DimensionNotFound ==
    \A t \in Threads :
        (/\ Plotted(t)
         /\ ~Empty(Table(t))
         /\ \A i \in 1..Len(Table(t).columns) : Table(t).columns[i] # SelectedDim(t))
        => graph[t] = ErrorGraph("Selected filter dimension not found in returned data.")

\* The groups of a prepared table: the pairs of a time and a label its
\* rows have, and those with a number among their values.
GroupsOf(df) ==
    {GroupKey(df.rows[i]) : i \in {j \in 1..Len(df.rows) : HasKey(df.rows[j])}}

NumericGroups(df) ==
    {GroupKey(df.rows[i]) :
        i \in {j \in 1..Len(df.rows) :
                  HasKey(df.rows[j]) /\ df.rows[j].value.t = "num"}}

\* The year of a time_period cell that has got one.
YearOf(cell) == cell.year

\* C27: for a table that has rows and a column for the selected
\* dimension, update_graph plots exactly the groups with a number among
\* their values, with an empty message when these are all the groups and
\* else with the note that names the years of the other groups; when no
\* group has a number it puts out the message of the ValueError "No
\* numerical data available ...".
C27_NumericGroups ==
    \A t \in Threads :
        (/\ Plotted(t)
         /\ ~Empty(Table(t))
         /\ MatchingCol(Table(t).columns, SelectedDim(t)) # <<>>)
        => LET df == Table(t)
               plotted == {[time_period |-> graph[t].data[i].time_period,
                            label |-> graph[t].data[i].label] :
                              i \in 1..Len(graph[t].data)}
               left_out == GroupsOf(df) \ NumericGroups(df)
               named == {graph[t].years[i] : i \in 1..Len(graph[t].years)}
           IN  IF NumericGroups(df) = {}
               THEN /\ graph[t].figure = "scatter"
                    /\ graph[t].kind = "Error"
                    /\ graph[t].text =
                           "No numerical data available for plotting. All values are non-numeric."
               ELSE /\ graph[t].figure = "line"
                    /\ plotted = NumericGroups(df)
                    /\ Len(graph[t].data) = Cardinality(plotted)
                    /\ IF left_out = {}
                       THEN graph[t].kind = "" /\ named = {}
                       ELSE /\ graph[t].kind = "Note"
                            /\ named = {YearOf(k.time_period) : k \in left_out}

-----------------------------------------------------------------------------
(* The workload of the frame of the result cache: the criteria that fill   *)
(* the cache, answered by a failure, a no-data warning or a page, and a    *)
(* caller that draws each output.  The service holds a record for the      *)
(* data sets of odd number and none for the others.                        *)

EmptyPage == [ok |-> TRUE, warnings |-> <<>>, paging |-> <<1>>, results |-> <<>>]

FrameResponses(a) ==
    IF a.dataset_id % 2 = 0
    THEN {Failure, EmptyPage,
          [ok |-> TRUE, warnings |-> <<"NoResults">>, paging |-> <<1>>,
           results |-> <<>>]}
    ELSE OnePageResponses

NextFrame ==
    \/ \E a \in FifoQueries : Call(Main, a)
    \/ Lookup(Main)
    \/ ReturnHit(Main)
    \/ GetMetadata(Main)
    \/ \E resp \in MetaResponses : RecvMetadata(Main, resp)
    \/ PostQuerySend(Main)
    \/ \E resp \in FrameResponses(args[Main]) : PostQueryRecv(Main, resp)
    \/ BuildTable(Main)
    \/ Store(Main)
    \/ UpdateGraph(Main, DimG)

SpecFrame == Init /\ [][NextFrame]_vars

\* The tables the cache holds, in the order of its entries.
CachedTables(cache, h) ==
    [i \in 1..Len(cache) |-> [key |-> cache[i].key, table |-> h[cache[i].ref]]]

\* C30: the result cache is changed only by the step in which a call that
\* missed returns its table: that step drops the oldest entry if the cache
\* was full and puts the call's own key, which the cache did not hold, after
\* the others, with a table equal to the one returned, empty or not.  Every
\* other step (a hit, a call that raises on the metadata request, on a page
\* request or on the no-data warning, the caller's work on its table) leaves
\* the keys, their order and their tables as they were.
C30_CacheFrame ==
    [][\A t \in Threads :
          (pc[t] # "idle" \/ pc'[t] # pc[t] \/ graph'[t] # graph[t]) =>
             LET before == CachedTables(query_cache, heap)
                 after == CachedTables(query_cache', heap')
             IN  IF pc[t] = "store" /\ pc'[t] = "idle"
                    /\ result'[t].kind = "table"
                 THEN /\ ~result'[t].hit
                      /\ loc[t].key \notin Keys(query_cache)
                      /\ after = Append(CachedTables(Evict(query_cache), heap),
                                        [key |-> loc[t].key,
                                         table |-> heap'[result'[t].ref]])
                 ELSE after = before]_vars

\* C30 witness: the cache holds the empty table of the call that has just
\* returned it, after a call that raised and a hit had left it alone.
C30_Witness ==
    /\ pc[Main] = "idle"
    /\ result[Main].kind = "table"
    /\ ~result[Main].hit
    /\ Empty(heap[result[Main].ref])
    /\ Len(query_cache) >= 2
    /\ query_cache[Len(query_cache)].key = cache_key(args[Main])
    /\ Empty(heap[query_cache[Len(query_cache)].ref])
    /\ hist.clock > CacheCapacity

=============================================================================
